---- MODULE Spec2Model ----
(***************************************************************************)
(* SimulSolve: generation, solving and display of 2x2 / 3x3 linear systems. *)
(* Two versions of the engine are modelled side by side:                    *)
(*   - src/src/App.tsx        (component SimulSolveSessions), plain names;  *)
(*   - src/unnamed/part_000   (component SimulSolveMinimal, "Minimal v5"),  *)
(*     names carrying the suffix _v5.                                       *)
(* JavaScript numbers are modelled in exact arithmetic: a number is a       *)
(* fraction [n, d] in lowest terms with d > 0, and + - * / act on it        *)
(* exactly.  Integer helpers (igcd, lcm2, simplifyFraction) act on integers *)
(* with JavaScript's truncating remainder.                                  *)
(***************************************************************************)
EXTENDS Integers, Sequences, FiniteSets, TLC

VARIABLES
    app,        \* which component runs: "sessions" (App.tsx) or "minimal" (part_000)
    pc,         \* position of the exercised call chain
    rand,       \* the values the random source returns to the next generation
    difficulty, \* component state: difficulty
    ansType,    \* component state: answer kind
    mode,       \* component state: mode
    target,     \* the target solution picked at generation time
    p,          \* component state: the current Problem
    solved,     \* the solver's result for p (useMemo in App.tsx, sol2/sol3 in submit)
    call,       \* the arguments of an exercised helper call
    ret,        \* what that call returned
    ui          \* component state: the remaining useState / useRef values and pending timeouts

vars == <<app, pc, rand, difficulty, ansType, mode, target, p, solved, call, ret, ui>>

(***************************************************************************)
(* Bounds of the model.                                                     *)
(***************************************************************************)
\* target sweep, two unknowns: numerators range over -MaxP2 .. MaxP2
MaxP2 == 2
\* target sweep, two unknowns: denominators range over 2 .. MaxQ2
MaxQ2 == 4
\* coefficient sweep, two unknowns: magnitudes range over 1 .. MaxMag2
MaxMag2 == 2
\* target sweep, three unknowns: numerators range over -MaxP3 .. MaxP3
MaxP3 == 1
\* target sweep, three unknowns: denominators range over 2 .. MaxQ3
MaxQ3 == 3
\* coefficient sweep, three unknowns: the magnitude of the first coefficient of
\* each row ranges over 1 .. MaxMag3 (the other magnitudes are held at 1)
MaxMag3 == 1

\* directly supplied pairs of equations: coefficients range over -MaxA2 .. MaxA2
MaxA2 == 2
\* directly supplied pairs of equations: right-hand sides range over -MaxD2 .. MaxD2
MaxD2 == 2
\* directly supplied equations to scramble: coefficients range over -MaxEqCoef .. MaxEqCoef
MaxEqCoef == 2
\* directly supplied equations to scramble: right-hand sides range over -MaxEqRhs .. MaxEqRhs
MaxEqRhs == 3
\* directly supplied fractions: numerators range over -MaxNum .. MaxNum
MaxNum == 12
\* directly supplied fractions: denominators range over -MaxDen .. MaxDen without 0
MaxDen == 8
\* answer texts: every text of at most MaxTxtLen characters over TxtAlphabet
MaxTxtLen == 4
\* evaluated submissions: submit is exercised while totalAttempts < MaxAttempts
MaxAttempts == 2
\* sides rendered directly: coefficients and constants in -MaxSide .. MaxSide
MaxSide == 2
\* the session length minutes * 60 s in tenths of a second, scaled down: the
\* session timer adds 2 tenths per tick, the problem timer 1 tenth per tick
MaxSessionTenths == 4
\* the problem timer is followed up to this many tenths of a second
MaxProblemTenths == 1

(***************************************************************************)
(* Integer helpers.                                                         *)
(***************************************************************************)
Abs(n) == IF n < 0 THEN -n ELSE n

\* Math.sign on integers
Sign(n) == IF n > 0 THEN 1 ELSE IF n < 0 THEN -1 ELSE 0

\* integer quotient rounded toward zero (the quotient behind JavaScript's %)
TruncDiv(a, b) == Sign(a) * Sign(b) * (Abs(a) \div Abs(b))

\* JavaScript a % b on integers: the remainder takes the sign of the dividend
JsRem(a, b) == a - b * TruncDiv(a, b)

RECURSIVE igcd(_, _)
igcd(a, b) == IF b = 0 THEN Abs(a) ELSE igcd(b, JsRem(a, b))

\* lcm2 returning the common divisor instead of the common multiple
lcm2AsGcd(a, b) == igcd(a, b)

lcm2(a, b) == Abs(a * b) \div igcd(a, b)

lcm3(a, b, c) == lcm2(lcm2(a, b), c)

\* simplifyFraction without the division by the gcd
simplifyFractionNoReduce(num, den) ==
    IF den < 0 THEN [num |-> -num, den |-> -den] ELSE [num |-> num, den |-> den]

\* simplifyFraction without the sign normalisation
simplifyFractionNoSign(num, den) ==
    LET g == igcd(num, den)
    IN  [num |-> num \div g, den |-> den \div g]

simplifyFraction(num, den) ==
    LET n1 == IF den < 0 THEN -num ELSE num
        d1 == IF den < 0 THEN -den ELSE den
        g  == igcd(n1, d1)
    IN  [num |-> n1 \div g, den |-> d1 \div g]

(***************************************************************************)
(* JavaScript numbers in exact arithmetic.                                  *)
(***************************************************************************)
RECURSIVE NatGcd(_, _)
NatGcd(a, b) == IF b = 0 THEN a ELSE NatGcd(b, a % b)

\* the number n/d (d # 0)
Num(n, d) ==
    LET g == NatGcd(Abs(n), Abs(d))
        s == IF d < 0 THEN -1 ELSE 1
    IN  [n |-> s * (n \div g), d |-> s * (d \div g)]

NumOf(k) == [n |-> k, d |-> 1]
NumAdd(x, y) == Num(x.n * y.d + y.n * x.d, x.d * y.d)
NumSub(x, y) == Num(x.n * y.d - y.n * x.d, x.d * y.d)
NumMul(x, y) == Num(x.n * y.n, x.d * y.d)
NumDiv(x, y) == Num(x.n * y.d, x.d * y.n)
NumAbs(x) == [n |-> Abs(x.n), d |-> x.d]
NumGt(x, y) == x.n * y.d > y.n * x.d
IsInteger(x) == x.d = 1

\* Math.trunc: drop the fractional part, toward zero
MathTrunc(x) == TruncDiv(x.n, x.d)

\* Math.round: nearest integer, halves toward +infinity: floor(x + 1/2)
MathRound(x) == (2 * x.n + x.d) \div (2 * x.d)

(***************************************************************************)
(* Values shared by both versions.                                          *)
(***************************************************************************)
Difficulties == {"easy", "medium", "hard"}
AnswerTypes == {"integers", "fractions"}

\* the no-solution value of the solvers
null == [null |-> TRUE]

\* the state of p and solved before the exercised call has produced them
Unset == [unset |-> TRUE]

\* rnd(min, max): the integers the call can return
rnd(min, max) == min .. max

(***************************************************************************)
(* Display scrambling, App.tsx.                                             *)
(***************************************************************************)
\* the token list formatSide builds before rendering
sideToks(ax, by, cz, k, includeZ) ==
    (IF k # 0 THEN <<[coef |-> k, t |-> "const"]>> ELSE <<>>)
    \o (IF ax # 0 THEN <<[coef |-> ax, t |-> "x"]>> ELSE <<>>)
    \o (IF by # 0 THEN <<[coef |-> by, t |-> "y"]>> ELSE <<>>)
    \o (IF includeZ /\ cz # 0 THEN <<[coef |-> cz, t |-> "z"]>> ELSE <<>>)

\* tokText dropping the numeral of a constant of magnitude 1 as well
tokTextBareOne(tok, first) ==
    LET sign == IF tok.coef < 0 THEN "-" ELSE "+"
        mag  == Abs(tok.coef)
        core == (IF mag = 1 THEN "" ELSE ToString(mag))
                \o (IF tok.t = "const" THEN "" ELSE tok.t)
    IN  IF first THEN (IF tok.coef < 0 THEN "- " ELSE "") \o core
        ELSE " " \o sign \o " " \o core

\* the text of one token: core, with the leading minus or the joiner
tokText(tok, first) ==
    LET sign == IF tok.coef < 0 THEN "-" ELSE "+"
        mag  == Abs(tok.coef)
        core == IF tok.t = "const" THEN ToString(mag)
                ELSE (IF mag = 1 THEN "" ELSE ToString(mag)) \o tok.t
    IN  IF first THEN (IF tok.coef < 0 THEN "- " ELSE "") \o core
        ELSE " " \o sign \o " " \o core

RECURSIVE renderToks(_, _)
renderToks(toks, first) ==
    IF Len(toks) = 0 THEN ""
    ELSE tokText(Head(toks), first) \o renderToks(Tail(toks), FALSE)

\* the text formatSide returns for its token list
renderSide(toks) == IF Len(toks) = 0 THEN "0" ELSE renderToks(toks, TRUE)

formatSide(ax, by, cz, k, includeZ) == renderSide(sideToks(ax, by, cz, k, includeZ))

\* scrambleParts with the constant moved across with the wrong sign
scramblePartsMinus(e, includeZ, dr) ==
    [axL |-> dr.ax, axR |-> dr.ax - e.a,
     byL |-> dr.by, byR |-> dr.by - e.b,
     czL |-> IF includeZ THEN dr.cz ELSE 0,
     czR |-> IF includeZ THEN dr.cz - e.c ELSE 0,
     kL  |-> dr.k,  kR  |-> dr.k - e.d]

\* the contributions scrambleLinear puts on each side; dr holds the four rnd results
scrambleParts(e, includeZ, dr) ==
    [axL |-> dr.ax, axR |-> dr.ax - e.a,
     byL |-> dr.by, byR |-> dr.by - e.b,
     czL |-> IF includeZ THEN dr.cz ELSE 0,
     czR |-> IF includeZ THEN dr.cz - e.c ELSE 0,
     kL  |-> dr.k,  kR  |-> dr.k + e.d]

\* the two sides scrambleLinear renders, as formatSide's token lists
scrambleSides(e, includeZ, dr) ==
    LET s == scrambleParts(e, includeZ, dr)
    IN  [L |-> sideToks(s.axL, s.byL, s.czL, s.kL, includeZ),
         R |-> sideToks(s.axR, s.byR, s.czR, s.kR, includeZ)]

scrambleLinear(e, includeZ, dr) ==
    LET s == scrambleSides(e, includeZ, dr)
    IN  renderSide(s.L) \o " = " \o renderSide(s.R)

(***************************************************************************)
(* Display scrambling, part_000.                                            *)
(***************************************************************************)
\* e.c ?? 0
cOrZero(e) == IF "c" \in DOMAIN e THEN e.c ELSE 0

\* formatSide of part_000 on numbers: includeZ && cz && cz!==0 is cz!==0 there
formatSide_v5(ax, by, cz, k, includeZ) ==
    renderSide((IF k # 0 THEN <<[coef |-> k, t |-> "const"]>> ELSE <<>>)
               \o (IF ax # 0 THEN <<[coef |-> ax, t |-> "x"]>> ELSE <<>>)
               \o (IF by # 0 THEN <<[coef |-> by, t |-> "y"]>> ELSE <<>>)
               \o (IF includeZ /\ cz # 0 THEN <<[coef |-> cz, t |-> "z"]>> ELSE <<>>))

scrambleParts_v5(e, includeZ, dr) ==
    [axL |-> dr.ax, axR |-> dr.ax - e.a,
     byL |-> dr.by, byR |-> dr.by - e.b,
     czL |-> IF includeZ THEN dr.cz ELSE 0,
     czR |-> IF includeZ THEN dr.cz - cOrZero(e) ELSE 0,
     kL  |-> dr.k,  kR  |-> dr.k - e.d]

scrambleSides_v5(e, includeZ, dr) ==
    LET s == scrambleParts_v5(e, includeZ, dr)
    IN  [L |-> sideToks(s.axL, s.byL, s.czL, s.kL, includeZ),
         R |-> sideToks(s.axR, s.byR, s.czR, s.kR, includeZ)]

scrambleLinear_v5(e, includeZ, dr) ==
    LET s == scrambleSides_v5(e, includeZ, dr)
    IN  renderSide(s.L) \o " = " \o renderSide(s.R)

(***************************************************************************)
(* Generators, App.tsx.  r holds what the random source returns:            *)
(*   r.id   the random part of the identifier                               *)
(*   r.sol  one [p, q] per coordinate (pickPQ)                              *)
(*   r.co   one [s, m] per coefficient: choice([-1,1]) and choice(base)     *)
(*   r.scr  one [ax, by, cz, k] per equation (scrambleLinear)               *)
(***************************************************************************)
pickPQ(ansType_, d) ==
    IF ansType_ = "integers" THEN [p |-> d.p, q |-> 1] ELSE [p |-> d.p, q |-> d.q]

pickSolution2(ansType_, ds) ==
    LET sx == pickPQ(ansType_, ds[1])
        sy == pickPQ(ansType_, ds[2])
    IN  [x |-> Num(sx.p, sx.q), y |-> Num(sy.p, sy.q), qx |-> sx.q, qy |-> sy.q]

pickSolution3(ansType_, ds) ==
    LET sx == pickPQ(ansType_, ds[1])
        sy == pickPQ(ansType_, ds[2])
        sz == pickPQ(ansType_, ds[3])
    IN  [x |-> Num(sx.p, sx.q), y |-> Num(sy.p, sy.q), z |-> Num(sz.p, sz.q),
         qx |-> sx.q, qy |-> sy.q, qz |-> sz.q]

\* the magnitudes gen2x2 draws from
base2(difficulty_) ==
    IF difficulty_ = "easy" THEN {1, 2, 3}
    ELSE IF difficulty_ = "medium" THEN {1, 2, 3, 4, 5}
    ELSE {1, 2, 3, 4, 5, 6, 7}

\* the magnitudes gen3x3 draws from
base3(difficulty_) ==
    IF difficulty_ = "easy" THEN {1, 2, 3}
    ELSE IF difficulty_ = "medium" THEN {1, 2, 3, 4}
    ELSE {1, 2, 3, 4, 5}

\* a*x + b*y as JavaScript evaluates it on numbers
lin2(a, b, x, y) == NumAdd(NumMul(NumOf(a), x), NumMul(NumOf(b), y))

lin3(a, b, c, x, y, z) == NumAdd(lin2(a, b, x, y), NumMul(NumOf(c), z))

\* coefs2 without the adjustment of a singular draw
coefs2NoAdjust(L, co) ==
    [a |-> L * co[1].s * co[1].m, b |-> L * co[2].s * co[2].m,
     c |-> L * co[3].s * co[3].m, d |-> L * co[4].s * co[4].m]

\* the coefficients a, b, c, d of gen2x2 after the singularity adjustment
coefs2(L, co) ==
    LET a == L * co[1].s * co[1].m
        b == L * co[2].s * co[2].m
        c == L * co[3].s * co[3].m
        d == L * co[4].s * co[4].m
    IN  [a |-> a, b |-> b, c |-> c, d |-> IF a * d - b * c = 0 THEN d + L ELSE d]

gen2x2(difficulty_, ansType_, r) ==
    LET sol == pickSolution2(ansType_, r.sol)
        L   == lcm2(sol.qx, sol.qy)
        m   == coefs2(L, r.co)
        e1  == [a |-> m.a, b |-> m.b, c |-> 0, d |-> MathTrunc(lin2(m.a, m.b, sol.x, sol.y))]
        e2  == [a |-> m.c, b |-> m.d, c |-> 0, d |-> MathTrunc(lin2(m.c, m.d, sol.x, sol.y))]
    IN  [id |-> r.id, mode |-> "2x2", variables |-> <<"x", "y">>, eqs |-> <<e1, e2>>,
         display |-> <<scrambleLinear(e1, FALSE, r.scr[1]),
                       scrambleLinear(e2, FALSE, r.scr[2])>>]

det(M) ==
    M[1][1] * (M[2][2] * M[3][3] - M[2][3] * M[3][2])
    - M[1][2] * (M[2][1] * M[3][3] - M[2][3] * M[3][1])
    + M[1][3] * (M[2][1] * M[3][2] - M[2][2] * M[3][1])

\* the matrix A of gen3x3 after the singularity adjustment
coefs3(L, co) ==
    LET A == [i \in 1..3 |-> [j \in 1..3 |->
                 L * co[3 * (i - 1) + j].s * co[3 * (i - 1) + j].m]]
    IN  IF det(A) = 0 THEN [A EXCEPT ![3][3] = @ + L] ELSE A

gen3x3(difficulty_, ansType_, r) ==
    LET sol == pickSolution3(ansType_, r.sol)
        L   == lcm3(sol.qx, sol.qy, sol.qz)
        A   == coefs3(L, r.co)
        rhs == [i \in 1..3 |->
                   MathTrunc(lin3(A[i][1], A[i][2], A[i][3], sol.x, sol.y, sol.z))]
        e   == [i \in 1..3 |-> [a |-> A[i][1], b |-> A[i][2], c |-> A[i][3], d |-> rhs[i]]]
    IN  [id |-> r.id, mode |-> "3x3", variables |-> <<"x", "y", "z">>,
         eqs |-> <<e[1], e[2], e[3]>>,
         display |-> <<scrambleLinear(e[1], TRUE, r.scr[1]),
                       scrambleLinear(e[2], TRUE, r.scr[2]),
                       scrambleLinear(e[3], TRUE, r.scr[3])>>]

genProblem(mode_, difficulty_, ansType_, r) ==
    IF mode_ = "2x2" THEN gen2x2(difficulty_, ansType_, r)
    ELSE gen3x3(difficulty_, ansType_, r)

(***************************************************************************)
(* Generators, part_000.  r holds what the random source returns:           *)
(*   r.sol  one [p, q] per coordinate (genSolution's pickPQ)                *)
(*   r.q    the multiplier q drawn by gen2x2 / gen3x3                       *)
(*   r.co   one choice(base) per coefficient (randMatrix2 / randMatrix3)    *)
(***************************************************************************)
pickPQ_v5(ansType_, d) ==
    [q |-> IF ansType_ = "integers" THEN 1 ELSE d.q, p |-> d.p]

genSolution(dim, ansType_, ds) ==
    LET sx == pickPQ_v5(ansType_, ds[1])
        sy == pickPQ_v5(ansType_, ds[2])
    IN  IF dim = 2 THEN [x |-> Num(sx.p, sx.q), y |-> Num(sy.p, sy.q)]
        ELSE LET sz == pickPQ_v5(ansType_, ds[3])
             IN  [x |-> Num(sx.p, sx.q), y |-> Num(sy.p, sy.q), z |-> Num(sz.p, sz.q)]

\* the signed values randMatrix2 draws from
matBase2 == {-4, -3, -2, -1, 1, 2, 3, 4}

\* the signed values randMatrix3 draws from
matBase3 == {-3, -2, -1, 1, 2, 3}

randMatrix2(q, co) ==
    LET a == q * co[1]
        b == q * co[2]
        c == q * co[3]
        d == q * co[4]
    IN  [a |-> a, b |-> b, c |-> c, d |-> IF a * d - b * c = 0 THEN d + q ELSE d]

randMatrix3(q, co) ==
    LET A == [i \in 1..3 |-> [j \in 1..3 |-> q * co[3 * (i - 1) + j]]]
    IN  IF det(A) = 0 THEN [A EXCEPT ![3][3] = @ + q] ELSE A

\* the multiplier q of gen2x2 / gen3x3
coefQ_v5(ansType_, r) == IF ansType_ = "integers" THEN 1 ELSE r.q

gen2x2_v5(difficulty_, ansType_, r) ==
    LET sol  == genSolution(2, ansType_, r.sol)
        q    == coefQ_v5(ansType_, r)
        m    == randMatrix2(q, r.co)
        rhs1 == lin2(m.a, m.b, sol.x, sol.y)
        rhs2 == lin2(m.c, m.d, sol.x, sol.y)
        e1   == [a |-> m.a, b |-> m.b, d |-> MathRound(rhs1)]
        e2   == [a |-> m.c, b |-> m.d, d |-> MathRound(rhs2)]
    IN  [id |-> r.id, mode |-> "2x2", variables |-> <<"x", "y">>, eqs |-> <<e1, e2>>,
         display |-> <<scrambleLinear_v5(e1, FALSE, r.scr[1]),
                       scrambleLinear_v5(e2, FALSE, r.scr[2])>>]

gen3x3_v5(difficulty_, ansType_, r) ==
    LET sol == genSolution(3, ansType_, r.sol)
        q   == coefQ_v5(ansType_, r)
        A   == randMatrix3(q, r.co)
        rhs == [i \in 1..3 |->
                   MathRound(lin3(A[i][1], A[i][2], A[i][3], sol.x, sol.y, sol.z))]
        e   == [i \in 1..3 |-> [a |-> A[i][1], b |-> A[i][2], c |-> A[i][3], d |-> rhs[i]]]
    IN  [id |-> r.id, mode |-> "3x3", variables |-> <<"x", "y", "z">>,
         eqs |-> <<e[1], e[2], e[3]>>,
         display |-> <<scrambleLinear_v5(e[1], TRUE, r.scr[1]),
                       scrambleLinear_v5(e[2], TRUE, r.scr[2]),
                       scrambleLinear_v5(e[3], TRUE, r.scr[3])>>]

genProblem_v5(mode_, difficulty_, ansType_, r) ==
    IF mode_ = "2x2" THEN gen2x2_v5(difficulty_, ansType_, r)
    ELSE gen3x3_v5(difficulty_, ansType_, r)

(***************************************************************************)
(* Solvers.                                                                 *)
(***************************************************************************)
\* solve2D with the sign of the second product slipped
solve2DPlus(e1, e2) == e1.a * e2.b + e1.b * e2.a

\* the determinant D of solve2
solve2D(e1, e2) == e1.a * e2.b - e1.b * e2.a

\* the numerator Dx of solve2
solve2Dx(e1, e2) == e1.d * e2.b - e1.b * e2.d

\* the numerator Dy of solve2
solve2Dy(e1, e2) == e1.a * e2.d - e1.d * e2.a

solve2(e1, e2) ==
    LET D  == solve2D(e1, e2)
        Dx == solve2Dx(e1, e2)
        Dy == solve2Dy(e1, e2)
    IN  IF D = 0 THEN null
        ELSE LET fx == simplifyFraction(Dx, D)
                 fy == simplifyFraction(Dy, D)
             IN  [x |-> Num(Dx, D), y |-> Num(Dy, D),
                  xNum |-> fx.num, xDen |-> fx.den, yNum |-> fy.num, yDen |-> fy.den]

solve2_v5(e1, e2) ==
    LET D  == solve2D(e1, e2)
        Dx == solve2Dx(e1, e2)
        Dy == solve2Dy(e1, e2)
    IN  IF D = 0 THEN null
        ELSE LET sx == simplifyFraction(Dx, D)
                 sy == simplifyFraction(Dy, D)
             IN  [x |-> Num(Dx, D), y |-> Num(Dy, D),
                  xNum |-> sx.num, xDen |-> sx.den, yNum |-> sy.num, yDen |-> sy.den,
                  D |-> D]

\* 1e-12 is 1 / (TolRoot * TolRoot)
TolRoot == 1000000

\* belowTol without Math.abs: v < 1e-12
belowTolNoAbs(v) == v.n <= ((v.d - 1) \div TolRoot) \div TolRoot

\* Math.abs(v) < 1e-12 on an exact number
belowTol(v) == Abs(v.n) <= ((v.d - 1) \div TolRoot) \div TolRoot

\* the augmented matrix of solve3: rows [a, b, c, d] as numbers
augmented(eq) ==
    [i \in 1..3 |-> <<NumOf(eq[i].a), NumOf(eq[i].b), NumOf(eq[i].c), NumOf(eq[i].d)>>]

\* the augmented matrix of solve3 in part_000: rows [a, b, c ?? 0, d]
augmented_v5(eq) ==
    [i \in 1..3 |-> <<NumOf(eq[i].a), NumOf(eq[i].b), NumOf(cOrZero(eq[i])), NumOf(eq[i].d)>>]

\* the pivot row chosen for column c: the first row from c down of largest magnitude
pivotRow(A, c) ==
    LET bigger(r, q) == NumGt(NumAbs(A[r][c]), NumAbs(A[q][c]))
        p1 == IF c + 1 <= 3 /\ bigger(c + 1, c) THEN c + 1 ELSE c
    IN  IF c + 2 <= 3 /\ bigger(c + 2, p1) THEN c + 2 ELSE p1

\* rows pr and c exchanged
swapRows(A, pr, c) ==
    [i \in 1..3 |-> IF i = c THEN A[pr] ELSE IF i = pr THEN A[c] ELSE A[i]]

\* eliminate adding the multiple of the pivot row instead of subtracting it
eliminateAdd(A, c) ==
    [i \in 1..3 |->
        IF i <= c THEN A[i]
        ELSE LET f == NumDiv(A[i][c], A[c][c])
             IN  [k \in 1..4 |->
                     IF k < c THEN A[i][k] ELSE NumAdd(A[i][k], NumMul(f, A[c][k]))]]

\* column c eliminated from the rows below row c
eliminate(A, c) ==
    [i \in 1..3 |->
        IF i <= c THEN A[i]
        ELSE LET f == NumDiv(A[i][c], A[c][c])
             IN  [k \in 1..4 |->
                     IF k < c THEN A[i][k] ELSE NumSub(A[i][k], NumMul(f, A[c][k]))]]

\* the loop of solve3 from column c on: singular, or the triangular matrix
RECURSIVE forward(_, _)
forward(A, c) ==
    IF c > 3 THEN [singular |-> FALSE, A |-> A]
    ELSE LET pr == pivotRow(A, c)
         IN  IF belowTol(A[pr][c]) THEN [singular |-> TRUE]
             ELSE forward(eliminate(swapRows(A, pr, c), c), c + 1)

\* backSubstitute with x taken from row 1 without the y term
backSubstituteNoY(A) ==
    LET z == NumDiv(A[3][4], A[3][3])
        y == NumDiv(NumSub(A[2][4], NumMul(A[2][3], z)), A[2][2])
        x == NumDiv(NumSub(A[1][4], NumMul(A[1][3], z)), A[1][1])
    IN  [x |-> x, y |-> y, z |-> z]

\* the back-substitution of solve3 on the triangular matrix
backSubstitute(A) ==
    LET z == NumDiv(A[3][4], A[3][3])
        y == NumDiv(NumSub(A[2][4], NumMul(A[2][3], z)), A[2][2])
        x == NumDiv(NumSub(NumSub(A[1][4], NumMul(A[1][3], z)), NumMul(A[1][2], y)),
                    A[1][1])
    IN  [x |-> x, y |-> y, z |-> z]

\* solve3 exchanging the first pivot row in the array it was given
solve3LeavesSwapped(eq) ==
    LET pr == pivotRow(augmented(eq), 1)
    IN  [i \in 1..3 |-> IF i = 1 THEN eq[pr] ELSE IF i = pr THEN eq[1] ELSE eq[i]]

\* the array eq when solve3 returns: A = eq.map(e => [e.a, e.b, e.c, e.d]) has
\* rows of its own, so the row swaps and the eliminations write to A only
solve3Leaves(eq) == [i \in 1..3 |-> eq[i]]

solve3(eq) ==
    LET t == forward(augmented(eq), 1)
    IN  IF t.singular THEN null ELSE backSubstitute(t.A)

solve3_v5(eq) ==
    LET t == forward(augmented_v5(eq), 1)
    IN  IF t.singular THEN null ELSE backSubstitute(t.A)

(***************************************************************************)
(* The random source, bounded.  A generation is exercised in two sweeps:    *)
(* every coefficient draw against a few held targets, and every target draw *)
(* against a few held coefficient draws.                                    *)
(***************************************************************************)
\* the denominators choice([2,3,4,5,6,7,8]) can return
Denominators == {2, 3, 4, 5, 6, 7, 8}

\* the display draws held while the generators are exercised
ScrHeld == [ax |-> 2, by |-> -1, cz |-> 3, k |-> -5]

PQ(p_, q_) == [p |-> p_, q |-> q_]
SM(s_, m_) == [s |-> s_, m |-> m_]

\* the pickPQ draws of the target sweeps
PQDraws(ansType_, range, maxP, maxQ) ==
    [p : range \cap (-maxP .. maxP),
     q : IF ansType_ = "integers" THEN {1} ELSE Denominators \cap (2 .. maxQ)]

\* targets held during the coefficient sweeps
HeldTargets2(ansType_) ==
    IF ansType_ = "integers"
    THEN {<<PQ(2, 1), PQ(-1, 1)>>, <<PQ(0, 1), PQ(5, 1)>>}
    ELSE {<<PQ(1, 2), PQ(-2, 3)>>, <<PQ(9, 4), PQ(-5, 6)>>, <<PQ(3, 7), PQ(1, 8)>>}

HeldTargets3(ansType_) ==
    IF ansType_ = "integers"
    THEN {<<PQ(1, 1), PQ(-2, 1), PQ(3, 1)>>}
    ELSE {<<PQ(1, 2), PQ(-2, 3), PQ(3, 4)>>}

\* coefficient draws held during the target sweeps: a regular draw, a singular
\* draw, and a singular draw with opposite signs
HeldCoefs2 ==
    {<<SM(1, 1), SM(1, 2), SM(-1, 3), SM(-1, 1)>>,
     <<SM(1, 2), SM(1, 2), SM(1, 2), SM(1, 2)>>,
     <<SM(1, 3), SM(-1, 1), SM(-1, 3), SM(1, 1)>>}

\* a regular draw whose first column makes solve3 swap rows, a singular draw the
\* adjustment repairs, and a singular draw it does not repair
HeldCoefs3 ==
    {<<SM(1, 1), SM(1, 2), SM(-1, 1),
       SM(-1, 3), SM(1, 1), SM(1, 2),
       SM(1, 2), SM(-1, 1), SM(1, 3)>>,
     <<SM(1, 1), SM(1, 2), SM(1, 1),
       SM(1, 2), SM(-1, 1), SM(1, 3),
       SM(1, 1), SM(-1, 3), SM(1, 2)>>,
     <<SM(1, 1), SM(1, 1), SM(1, 1),
       SM(1, 1), SM(1, 1), SM(1, 1),
       SM(1, 1), SM(1, 1), SM(1, 1)>>}

\* the sign and magnitude draws of the coefficient sweep, two unknowns
SweepCoefs2(difficulty_) ==
    [1..4 -> [s : {-1, 1}, m : base2(difficulty_) \cap (1 .. MaxMag2)]]

\* the sign and magnitude draws of the coefficient sweep, three unknowns
SweepCoefs3(difficulty_) ==
    {[i \in 1..9 |-> SM(sg[i], IF i % 3 = 1 THEN mg[(i + 2) \div 3] ELSE 1)] :
        sg \in [1..9 -> {-1, 1}],
        mg \in [1..3 -> base3(difficulty_) \cap (1 .. MaxMag3)]}

\* what the random source can return to gen2x2 / gen3x3 of App.tsx
RandDraws(mode_, difficulty_, ansType_) ==
    IF mode_ = "2x2"
    THEN [id : {1}, sol : HeldTargets2(ansType_), co : SweepCoefs2(difficulty_),
          scr : {<<ScrHeld, ScrHeld>>}]
         \cup
         [id : {1},
          sol : [1..2 -> PQDraws(ansType_,
                     IF ansType_ = "integers" THEN rnd(-6, 6) ELSE rnd(-12, 12),
                     MaxP2, MaxQ2)],
          co : HeldCoefs2, scr : {<<ScrHeld, ScrHeld>>}]
    ELSE [id : {1}, sol : HeldTargets3(ansType_), co : SweepCoefs3(difficulty_),
          scr : {<<ScrHeld, ScrHeld, ScrHeld>>}]
         \cup
         [id : {1},
          sol : [1..3 -> PQDraws(ansType_,
                     IF ansType_ = "integers" THEN rnd(-4, 4) ELSE rnd(-10, 10),
                     MaxP3, MaxQ3)],
          co : HeldCoefs3, scr : {<<ScrHeld, ScrHeld, ScrHeld>>}]

\* the signed draws of randMatrix2 in the coefficient sweep
SweepCoefs2_v5 == [1..4 -> matBase2 \cap (-MaxMag2 .. MaxMag2)]

\* the signed draws of randMatrix3 in the coefficient sweep
SweepCoefs3_v5 ==
    {[i \in 1..9 |-> sg[i] * (IF i % 3 = 1 THEN mg[(i + 2) \div 3] ELSE 1)] :
        sg \in [1..9 -> {-1, 1}],
        mg \in [1..3 -> matBase3 \cap (1 .. MaxMag3)]}

\* what the random source can return to gen2x2 / gen3x3 of part_000
RandDraws_v5(mode_, ansType_) ==
    LET qs == IF ansType_ = "integers" THEN {1} ELSE Denominators \cap (2 .. MaxQ3)
    IN  IF mode_ = "2x2"
        THEN [id : {1}, sol : HeldTargets2(ansType_), q : qs, co : SweepCoefs2_v5,
              scr : {<<ScrHeld, ScrHeld>>}]
        ELSE [id : {1}, sol : HeldTargets3(ansType_), q : qs, co : SweepCoefs3_v5,
              scr : {<<ScrHeld, ScrHeld, ScrHeld>>}]

(***************************************************************************)
(* Generation followed by solving.                                          *)
(***************************************************************************)
NoCall == call = Unset /\ ret = Unset

InitGen ==
    /\ pc = "start"
    /\ mode \in {"2x2", "3x3"}
    /\ ansType \in AnswerTypes
    /\ \/ /\ app = "sessions"
          /\ difficulty \in Difficulties
          /\ rand \in RandDraws(mode, difficulty, ansType)
       \/ /\ app = "minimal"
          /\ difficulty = "medium"
          /\ rand \in RandDraws_v5(mode, ansType)
    /\ target = Unset
    /\ p = Unset
    /\ solved = Unset
    /\ ui = Unset
    /\ NoCall

\* newProblem of App.tsx: setP(genProblem(...))
newProblem ==
    /\ app = "sessions"
    /\ pc = "start"
    /\ p' = genProblem(mode, difficulty, ansType, rand)
    /\ target' = IF mode = "2x2" THEN pickSolution2(ansType, rand.sol)
                 ELSE pickSolution3(ansType, rand.sol)
    /\ pc' = "generated"
    /\ UNCHANGED <<ui, app, rand, difficulty, ansType, mode, solved, call, ret>>

\* newProblem of part_000
newProblem_v5 ==
    /\ app = "minimal"
    /\ pc = "start"
    /\ p' = genProblem_v5(mode, difficulty, ansType, rand)
    /\ target' = genSolution(IF mode = "2x2" THEN 2 ELSE 3, ansType, rand.sol)
    /\ pc' = "generated"
    /\ UNCHANGED <<ui, app, rand, difficulty, ansType, mode, solved, call, ret>>

\* the solved memo of App.tsx
Solve ==
    /\ app = "sessions"
    /\ pc = "generated"
    /\ solved' = IF p.mode = "2x2" THEN solve2(p.eqs[1], p.eqs[2]) ELSE solve3(p.eqs)
    /\ pc' = "solved"
    /\ UNCHANGED <<ui, app, rand, difficulty, ansType, mode, target, p, call, ret>>

\* sol2 / sol3 of submit in part_000
Solve_v5 ==
    /\ app = "minimal"
    /\ pc = "generated"
    /\ solved' = IF p.mode = "2x2" THEN solve2_v5(p.eqs[1], p.eqs[2])
                 ELSE solve3_v5(p.eqs)
    /\ pc' = "solved"
    /\ UNCHANGED <<ui, app, rand, difficulty, ansType, mode, target, p, call, ret>>

NextGen == newProblem \/ newProblem_v5 \/ Solve \/ Solve_v5

SpecGen == InitGen /\ [][NextGen]_vars

(***************************************************************************)
(* Solving directly supplied systems.                                       *)
(***************************************************************************)
\* an equation record of App.tsx (c always present) or of part_000 (c optional)
Eq2(app_, a_, b_, d_) ==
    IF app_ = "sessions" THEN [a |-> a_, b |-> b_, c |-> 0, d |-> d_]
    ELSE [a |-> a_, b |-> b_, d |-> d_]

Eq3(a_, b_, c_, d_) == [a |-> a_, b |-> b_, c |-> c_, d |-> d_]

\* 2x + 3y = 7, x - y = 1
Scenario1(app_) == <<Eq2(app_, 2, 3, 7), Eq2(app_, 1, -1, 1)>>

\* 4x = 6, 4y = -5
Scenario2(app_) == <<Eq2(app_, 4, 0, 6), Eq2(app_, 0, 4, -5)>>

\* x + y + z = 6, x + 2y + 3z = 14, 2x - y + z = 5
Scenario3 == <<Eq3(1, 1, 1, 6), Eq3(1, 2, 3, 14), Eq3(2, -1, 1, 5)>>

\* every pair of equations within the bounds, and the two scenarios
DirectPairs(app_) ==
    {<<Eq2(app_, a1, b1, d1), Eq2(app_, a2, b2, d2)>> :
        a1 \in -MaxA2 .. MaxA2, b1 \in -MaxA2 .. MaxA2, d1 \in -MaxD2 .. MaxD2,
        a2 \in -MaxA2 .. MaxA2, b2 \in -MaxA2 .. MaxA2, d2 \in -MaxD2 .. MaxD2}
    \cup {Scenario1(app_), Scenario2(app_)}

\* a Problem holding directly supplied equations
DirectProblem(app_, eqs) ==
    IF Len(eqs) = 2
    THEN [id |-> 0, mode |-> "2x2", variables |-> <<"x", "y">>, eqs |-> eqs,
          display |-> IF app_ = "sessions"
                      THEN <<scrambleLinear(eqs[1], FALSE, ScrHeld),
                             scrambleLinear(eqs[2], FALSE, ScrHeld)>>
                      ELSE <<scrambleLinear_v5(eqs[1], FALSE, ScrHeld),
                             scrambleLinear_v5(eqs[2], FALSE, ScrHeld)>>]
    ELSE [id |-> 0, mode |-> "3x3", variables |-> <<"x", "y", "z">>, eqs |-> eqs,
          display |-> IF app_ = "sessions"
                      THEN <<scrambleLinear(eqs[1], TRUE, ScrHeld),
                             scrambleLinear(eqs[2], TRUE, ScrHeld),
                             scrambleLinear(eqs[3], TRUE, ScrHeld)>>
                      ELSE <<scrambleLinear_v5(eqs[1], TRUE, ScrHeld),
                             scrambleLinear_v5(eqs[2], TRUE, ScrHeld),
                             scrambleLinear_v5(eqs[3], TRUE, ScrHeld)>>]

InitSolve ==
    /\ pc = "generated"
    /\ app \in {"sessions", "minimal"}
    /\ difficulty = "medium"
    /\ ansType = "fractions"
    /\ rand = Unset
    /\ target = Unset
    /\ \E eqs \in DirectPairs(app) \cup {Scenario3} :
          /\ p = DirectProblem(app, eqs)
          /\ mode = p.mode
    /\ solved = Unset
    /\ ui = Unset
    /\ NoCall

NextSolve == Solve \/ Solve_v5

SpecSolve == InitSolve /\ [][NextSolve]_vars

(***************************************************************************)
(* Scrambling directly supplied equations.                                  *)
(***************************************************************************)
\* the four rnd results of one scrambleLinear call; czL is drawn only with includeZ
ScrDraws(includeZ) ==
    [ax : rnd(-3, 3), by : rnd(-3, 3),
     cz : IF includeZ THEN rnd(-3, 3) ELSE {0}, k : rnd(-12, 12)]

\* draws held fixed while the equations are swept
HeldScrDraws(includeZ) ==
    {dr \in ScrDraws(includeZ) :
        \/ dr.ax = ScrHeld.ax /\ dr.by = ScrHeld.by /\ dr.k = ScrHeld.k
              /\ dr.cz \in {0, ScrHeld.cz}
        \/ dr.ax = 0 /\ dr.by = 0 /\ dr.cz = 0 /\ dr.k = 0
        \/ dr.ax = 1 /\ dr.by = -1 /\ dr.cz \in {0, 1} /\ dr.k = 12}

\* equations within the bounds; a two-unknown equation of part_000 has no c
SweepEqs(app_, includeZ) ==
    IF includeZ
    THEN {Eq3(a_, b_, c_, d_) :
             a_ \in -MaxEqCoef .. MaxEqCoef, b_ \in -MaxEqCoef .. MaxEqCoef,
             c_ \in -MaxEqCoef .. MaxEqCoef, d_ \in -MaxEqRhs .. MaxEqRhs}
    ELSE {Eq2(app_, a_, b_, d_) :
             a_ \in -MaxEqCoef .. MaxEqCoef, b_ \in -MaxEqCoef .. MaxEqCoef,
             d_ \in -MaxEqRhs .. MaxEqRhs}

\* equations held fixed while the draws are swept
HeldEqs(app_, includeZ) ==
    IF includeZ THEN {Scenario3[2], Scenario3[3], Eq3(-3, 0, 1, -7)}
    ELSE {Scenario1(app_)[1], Scenario1(app_)[2], Scenario2(app_)[2]}

ScrCalls(app_, includeZ) ==
    {[fn |-> "scrambleLinear", e |-> e, includeZ |-> includeZ, dr |-> dr] :
        e \in SweepEqs(app_, includeZ), dr \in HeldScrDraws(includeZ)}
    \cup
    {[fn |-> "scrambleLinear", e |-> e, includeZ |-> includeZ, dr |-> dr] :
        e \in HeldEqs(app_, includeZ), dr \in ScrDraws(includeZ)}

InitScramble ==
    /\ pc = "call"
    /\ app \in {"sessions", "minimal"}
    /\ difficulty = "medium"
    /\ ansType = "fractions"
    /\ mode \in {"2x2", "3x3"}
    /\ call \in ScrCalls(app, mode = "3x3")
    /\ ret = Unset
    /\ rand = Unset
    /\ target = Unset
    /\ p = Unset
    /\ solved = Unset
    /\ ui = Unset

\* one call of scrambleLinear of App.tsx
Scramble ==
    /\ app = "sessions"
    /\ pc = "call"
    /\ ret' = [text  |-> scrambleLinear(call.e, call.includeZ, call.dr),
               parts |-> scrambleParts(call.e, call.includeZ, call.dr),
               L     |-> scrambleSides(call.e, call.includeZ, call.dr).L,
               R     |-> scrambleSides(call.e, call.includeZ, call.dr).R]
    /\ pc' = "returned"
    /\ UNCHANGED <<ui, app, rand, difficulty, ansType, mode, target, p, solved, call>>

\* one call of scrambleLinear of part_000
Scramble_v5 ==
    /\ app = "minimal"
    /\ pc = "call"
    /\ ret' = [text  |-> scrambleLinear_v5(call.e, call.includeZ, call.dr),
               parts |-> scrambleParts_v5(call.e, call.includeZ, call.dr),
               L     |-> scrambleSides_v5(call.e, call.includeZ, call.dr).L,
               R     |-> scrambleSides_v5(call.e, call.includeZ, call.dr).R]
    /\ pc' = "returned"
    /\ UNCHANGED <<ui, app, rand, difficulty, ansType, mode, target, p, solved, call>>

NextScramble == Scramble \/ Scramble_v5

SpecScramble == InitScramble /\ [][NextScramble]_vars

(***************************************************************************)
(* Numbers that may be non-finite: an exact number [n, d], an infinity       *)
(* [inf |-> 1] or [inf |-> -1], or NaN.                                      *)
(***************************************************************************)
Infinity == [inf |-> 1]

\* the not-a-number value
NaN == [nan |-> TRUE]

isFinite(v) == "n" \in DOMAIN v

IsNum(v) == "n" \in DOMAIN v
IsInf(v) == "inf" \in DOMAIN v
IsNaN(v) == "nan" \in DOMAIN v

\* Math.sign for a value that is not NaN
MathSign(v) == IF IsInf(v) THEN v.inf ELSE Sign(v.n)

\* x * y
JsMul(x, y) ==
    IF IsNaN(x) \/ IsNaN(y) THEN NaN
    ELSE IF IsNum(x) /\ IsNum(y) THEN NumMul(x, y)
    ELSE IF MathSign(x) * MathSign(y) = 0 THEN NaN
    ELSE [inf |-> MathSign(x) * MathSign(y)]

\* -x
JsNeg(x) ==
    IF IsNaN(x) THEN x
    ELSE IF IsInf(x) THEN [inf |-> -x.inf]
    ELSE NumSub(NumOf(0), x)

\* x - y
JsSub(x, y) ==
    IF IsNaN(x) \/ IsNaN(y) THEN NaN
    ELSE IF IsNum(x) /\ IsNum(y) THEN NumSub(x, y)
    ELSE IF IsInf(x) /\ IsInf(y) THEN (IF x.inf = y.inf THEN NaN ELSE x)
    ELSE IF IsInf(x) THEN x
    ELSE JsNeg(y)

\* x / y (a zero divisor counts as +0)
JsDiv(x, y) ==
    IF IsNaN(x) \/ IsNaN(y) THEN NaN
    ELSE IF IsNum(x) /\ IsNum(y)
         THEN IF y.n # 0 THEN NumDiv(x, y)
              ELSE IF x.n = 0 THEN NaN ELSE [inf |-> Sign(x.n)]
    ELSE IF IsInf(x) /\ IsInf(y) THEN NaN
    ELSE IF IsInf(x) THEN [inf |-> x.inf * (IF y.n < 0 THEN -1 ELSE 1)]
    ELSE NumOf(0)

\* x % y for integers and non-finite values
JsMod(x, y) ==
    IF IsNaN(x) \/ IsNaN(y) \/ IsInf(x) THEN NaN
    ELSE IF IsInf(y) THEN x
    ELSE IF y.n = 0 THEN NaN
    ELSE NumOf(JsRem(x.n, y.n))

\* Math.abs
JsAbs(x) ==
    IF IsNaN(x) THEN x ELSE IF IsInf(x) THEN Infinity ELSE NumAbs(x)

\* x <= y; false when either is NaN
JsLe(x, y) ==
    IF IsNaN(x) \/ IsNaN(y) THEN FALSE
    ELSE IF IsNum(x) /\ IsNum(y) THEN ~NumGt(x, y)
    ELSE IF IsInf(y) THEN y.inf = 1 \/ (IsInf(x) /\ x.inf = -1)
    ELSE x.inf = -1

\* the text of a number in a template string
JsText(v) ==
    CASE IsNaN(v) -> "NaN"
      [] IsInf(v) -> IF v.inf = 1 THEN "Infinity" ELSE "-Infinity"
      [] IsNum(v) /\ v.d = 1 -> ToString(v.n)

\* the recursion of igcd never ends: the call stack overflows
RangeError == [threw |-> "RangeError"]

\* igcd on values that may be non-finite
RECURSIVE igcdX(_, _)
igcdX(a, b) ==
    IF IsNum(b) /\ b.n = 0 THEN JsAbs(a)
    ELSE IF IsNaN(a) /\ IsNaN(b) THEN RangeError
    ELSE igcdX(b, JsMod(a, b))

\* simplifyFractionX without the sign normalisation
simplifyFractionXNoSign(num, den) ==
    LET g == igcdX(num, den)
    IN  IF g = RangeError THEN RangeError
        ELSE [num |-> JsDiv(num, g), den |-> JsDiv(den, g)]

\* simplifyFraction on values that may be non-finite
simplifyFractionX(num, den) ==
    LET neg == ~IsNaN(den) /\ MathSign(den) < 0
        n1  == IF neg THEN JsNeg(num) ELSE num
        d1  == IF neg THEN JsNeg(den) ELSE den
        g   == igcdX(n1, d1)
    IN  IF g = RangeError THEN RangeError
        ELSE [num |-> JsDiv(n1, g), den |-> JsDiv(d1, g)]

\* fracToText on values that may be non-finite
fracToTextX(num, den) ==
    IF den = NumOf(1) THEN JsText(num) ELSE JsText(num) \o "/" \o JsText(den)

fracToText(num, den) ==
    IF den = 1 THEN ToString(num) ELSE ToString(num) \o "/" \o ToString(den)

(***************************************************************************)
(* Worked steps.                                                            *)
(***************************************************************************)
\* planLcm with a zero coefficient giving 0 instead of Infinity
planLcmZero(c1, c2) ==
    IF c1 = 0 \/ c2 = 0 THEN NumOf(0) ELSE NumOf(lcm2(Abs(c1), Abs(c2)))

\* planOp with the two operations exchanged
planOpFlipped(c1, c2) == IF Sign(c1) = Sign(c2) THEN "+" ELSE "-"

\* lcmX / lcmY of the planner: Infinity when either coefficient is 0
planLcm(c1, c2) ==
    IF c1 = 0 \/ c2 = 0 THEN Infinity ELSE NumOf(lcm2(Abs(c1), Abs(c2)))

\* the operation of worked2x2: E1 op E2
planOp(c1, c2) == IF Sign(c1) = Sign(c2) THEN "-" ELSE "+"

\* the operation of buildOptimalSteps
planOp_v5(c1, c2) == IF Sign(c1) = Sign(c2) THEN "subtract" ELSE "add"

eqToString(e) ==
    formatSide(e.a, e.b, e.c, 0, e.c # 0) \o " = " \o ToString(e.d)

\* what worked2x2 computes before it writes its lines: the variable to
\* eliminate, the multipliers, the operation, the scaled equations and the
\* combined equation (B times the remaining variable = Bd)
worked2x2Plan(e1, e2) ==
    LET lcmX == planLcm(e1.a, e2.a)
        lcmY == planLcm(e1.b, e2.b)
        elim == IF JsLe(lcmX, lcmY) THEN "x" ELSE "y"
        l    == IF elim = "x" THEN lcmX ELSE lcmY
        c1   == IF elim = "x" THEN e1.a ELSE e1.b
        c2   == IF elim = "x" THEN e2.a ELSE e2.b
        k1   == JsDiv(l, NumOf(Abs(c1)))
        k2   == JsDiv(l, NumOf(Abs(c2)))
        op   == planOp(c1, c2)
        E1   == [a |-> JsMul(NumOf(e1.a), k1), b |-> JsMul(NumOf(e1.b), k1),
                 c |-> NumOf(0), d |-> JsMul(NumOf(e1.d), k1)]
        E2   == [a |-> JsMul(NumOf(e2.a), k2), b |-> JsMul(NumOf(e2.b), k2),
                 c |-> NumOf(0), d |-> JsMul(NumOf(e2.d), k2)]
        r1   == IF elim = "x" THEN E1.b ELSE E1.a
        r2   == IF elim = "x" THEN E2.b ELSE E2.a
    IN  [lcmX |-> lcmX, lcmY |-> lcmY, eliminate |-> elim,
         k1 |-> k1, k2 |-> k2, op |-> op, E1 |-> E1, E2 |-> E2,
         B  |-> JsSub(r1, IF op = "-" THEN r2 ELSE JsNeg(r2)),
         Bd |-> JsSub(E1.d, IF op = "-" THEN E2.d ELSE JsNeg(E2.d))]

\* the lines worked2x2 returns for the plan w, fS being what simplifyFraction
\* makes of Bd / B
worked2x2Lines(e1, e2, sol, w, kept, fS) ==
    << "Start: Eq(1) " \o eqToString(e1) \o ",  Eq(2) " \o eqToString(e2),
       "Make |" \o w.eliminate \o "| match: Eq(1)x" \o JsText(w.k1) \o " -> ("
           \o JsText(w.E1.a) \o ")x + (" \o JsText(w.E1.b) \o ")y = " \o JsText(w.E1.d),
       "Eq(2)x" \o JsText(w.k2) \o " -> ("
           \o JsText(w.E2.a) \o ")x + (" \o JsText(w.E2.b) \o ")y = " \o JsText(w.E2.d),
       "Eliminate " \o w.eliminate \o ": Eq(1) " \o w.op \o " Eq(2) -> ("
           \o JsText(w.B) \o ")" \o kept \o " = " \o JsText(w.Bd),
       kept \o " = " \o fracToTextX(fS.num, fS.den),
       "Back-sub into Eq(1) for " \o w.eliminate \o " (exact below)." >>
    \o (IF sol # null
        THEN << "Exact: x = " \o fracToText(sol.xNum, sol.xDen)
                \o ", y = " \o fracToText(sol.yNum, sol.yDen) >>
        ELSE <<>>)

\* worked2x2 once its plan w is made
worked2x2From(e1, e2, sol, w, fS) ==
    IF fS = RangeError THEN RangeError
    ELSE worked2x2Lines(e1, e2, sol, w, IF w.eliminate = "x" THEN "y" ELSE "x", fS)

\* worked2x2 on the plan w
worked2x2With(e1, e2, sol, w) ==
    worked2x2From(e1, e2, sol, w, simplifyFractionX(w.Bd, w.B))

\* the lines worked2x2 returns, or RangeError when simplifyFraction overflows
worked2x2(prob, sol) ==
    worked2x2With(prob.eqs[1], prob.eqs[2], sol, worked2x2Plan(prob.eqs[1], prob.eqs[2]))

\* the workedSteps memo of App.tsx
workedSteps(prob, sol) ==
    IF sol = null THEN <<>>
    ELSE IF prob.mode = "2x2" THEN worked2x2(prob, sol)
    ELSE << "Gaussian elimination:",
            "1) Pivot row 1 -> eliminate x from rows 2-3.",
            "2) Pivot row 2 -> eliminate y from row 3.",
            "3) Back-substitute: z -> y -> x." >>

\* what buildOptimalSteps of part_000 computes for two unknowns
buildOptimalPlan(e1, e2) ==
    LET lcmX == planLcm(e1.a, e2.a)
        lcmY == planLcm(e1.b, e2.b)
        tgt  == IF JsLe(lcmX, lcmY) THEN "x" ELSE "y"
        l    == IF tgt = "x" THEN lcmX ELSE lcmY
        c1   == IF tgt = "x" THEN e1.a ELSE e1.b
        c2   == IF tgt = "x" THEN e2.a ELSE e2.b
    IN  [lcmX |-> lcmX, lcmY |-> lcmY, eliminate |-> tgt,
         k1 |-> JsDiv(l, NumOf(Abs(c1))), k2 |-> JsDiv(l, NumOf(Abs(c2))),
         op |-> planOp_v5(c1, c2)]

buildOptimalSteps(prob) ==
    IF prob.mode = "2x2"
    THEN LET w == buildOptimalPlan(prob.eqs[1], prob.eqs[2])
         IN  << "Eliminate " \o w.eliminate \o ": multiply Eq(1) by " \o JsText(w.k1)
                    \o ", Eq(2) by " \o JsText(w.k2) \o ", then " \o w.op \o ".",
                IF w.eliminate = "x"
                THEN "Solve the 1-variable equation for y, then back-sub into the cleaner original equation."
                ELSE "Solve for x and back-substitute." >>
    ELSE << "Pivot on a11 (largest |a|). Do R2<-R2-(a21/a11)R1, R3<-R3-(a31/a11)R1.",
            "Pivot on a22, eliminate the second variable from row 3.",
            "Back-substitute z -> y -> x." >>

(***************************************************************************)
(* Planning the elimination for generated and for directly supplied         *)
(* two-unknown problems.                                                    *)
(***************************************************************************)
InitPlan ==
    /\ mode = "2x2"
    /\ InitGen \/ InitSolve

\* worked2x2 of App.tsx on the current problem
Plan ==
    /\ app = "sessions"
    /\ pc = "generated"
    /\ ret' = [plan  |-> worked2x2Plan(p.eqs[1], p.eqs[2]),
               steps |-> worked2x2(p, solve2(p.eqs[1], p.eqs[2]))]
    /\ pc' = "planned"
    /\ UNCHANGED <<ui, app, rand, difficulty, ansType, mode, target, p, solved, call>>

\* buildOptimalSteps of part_000 on the current problem
Plan_v5 ==
    /\ app = "minimal"
    /\ pc = "generated"
    /\ ret' = [plan  |-> buildOptimalPlan(p.eqs[1], p.eqs[2]),
               steps |-> buildOptimalSteps(p)]
    /\ pc' = "planned"
    /\ UNCHANGED <<ui, app, rand, difficulty, ansType, mode, target, p, solved, call>>

NextPlan == newProblem \/ newProblem_v5 \/ Plan \/ Plan_v5

SpecPlan == InitPlan /\ [][NextPlan]_vars

(***************************************************************************)
(* Answer text parsing.  A text is a sequence of one-character strings.     *)
(***************************************************************************)
Digits == {"0", "1", "2", "3", "4", "5", "6", "7", "8", "9"}

DigitVal(c) ==
    CASE c = "0" -> 0 [] c = "1" -> 1 [] c = "2" -> 2 [] c = "3" -> 3 [] c = "4" -> 4
      [] c = "5" -> 5 [] c = "6" -> 6 [] c = "7" -> 7 [] c = "8" -> 8 [] c = "9" -> 9

RECURSIVE DigitsVal(_)
DigitsVal(ds) ==
    IF Len(ds) = 0 THEN 0
    ELSE 10 * DigitsVal(SubSeq(ds, 1, Len(ds) - 1)) + DigitVal(ds[Len(ds)])

RECURSIVE Pow10(_)
Pow10(k) == IF k = 0 THEN 1 ELSE 10 * Pow10(k - 1)

RECURSIVE trimLeft(_)
trimLeft(txt) ==
    IF Len(txt) > 0 /\ Head(txt) = " " THEN trimLeft(Tail(txt)) ELSE txt

RECURSIVE trimRight(_)
trimRight(txt) ==
    IF Len(txt) > 0 /\ txt[Len(txt)] = " "
    THEN trimRight(SubSeq(txt, 1, Len(txt) - 1)) ELSE txt

\* String.prototype.trim
trim(txt) == trimRight(trimLeft(txt))

\* s.includes('/')
includesSlash(txt) == \E i \in 1..Len(txt) : txt[i] = "/"

\* s.split('/')
RECURSIVE split(_)
split(txt) ==
    IF ~includesSlash(txt) THEN <<txt>>
    ELSE LET i == CHOOSE j \in 1..Len(txt) :
                      txt[j] = "/" /\ \A k \in 1..(j - 1) : txt[k] # "/"
         IN  <<SubSeq(txt, 1, i - 1)>> \o split(SubSeq(txt, i + 1, Len(txt)))

\* Number(text) for texts of digits, ".", "-", spaces and other characters:
\* surrounding white space is dropped, the empty text is 0, an optionally
\* signed decimal literal with at least one digit is its value, the rest is NaN
Number(txt) ==
    LET t    == trim(txt)
        neg  == Len(t) > 0 /\ Head(t) = "-"
        body == IF neg THEN Tail(t) ELSE t
        dots == {i \in 1..Len(body) : body[i] = "."}
        dot  == IF dots = {} THEN Len(body) + 1 ELSE CHOOSE i \in dots : TRUE
        ip   == SubSeq(body, 1, dot - 1)
        fp   == SubSeq(body, dot + 1, Len(body))
        mag  == Num(DigitsVal(ip \o fp), Pow10(Len(fp)))
    IN  IF Len(t) = 0 THEN NumOf(0)
        ELSE IF \/ Cardinality(dots) > 1
                \/ \E i \in 1..Len(body) : body[i] \notin Digits \cup {"."}
                \/ Len(ip) + Len(fp) = 0
             THEN NaN
             ELSE IF neg THEN NumSub(NumOf(0), mag) ELSE mag

\* parseFraction of App.tsx: the first two parts of the split are used
parseFraction(txt) ==
    LET s == trim(txt)
    IN  IF Len(s) = 0 THEN NaN
        ELSE IF includesSlash(s)
             THEN LET p_ == Number(split(s)[1])
                      q_ == Number(split(s)[2])
                  IN  IF ~isFinite(p_) \/ ~isFinite(q_) \/ q_ = NumOf(0) THEN NaN
                      ELSE NumDiv(p_, q_)
             ELSE Number(s)

\* parseFraction of part_000: exactly two parts are required
parseFraction_v5(txt) ==
    LET s == trim(txt)
    IN  IF Len(s) = 0 THEN NaN
        ELSE IF includesSlash(s)
             THEN LET parts == split(s)
                  IN  IF Len(parts) # 2 THEN NaN
                      ELSE LET pn == Number(parts[1])
                               qn == Number(parts[2])
                           IN  IF ~isFinite(pn) \/ ~isFinite(qn) \/ qn = NumOf(0)
                               THEN NaN
                               ELSE NumDiv(pn, qn)
             ELSE Number(s)

\* the characters answer texts are swept over
TxtAlphabet == {"0", "1", "2", ".", "/", "-", "a", " "}

\* texts held besides the sweep
HeldTexts ==
    {<<"1", "/", "2", "/", "3">>, <<"1", ".", "5", "/", "2">>, <<"-", "1", "0", "/", "4">>,
     <<" ", "9", "/", "4", " ">>, <<"1", ".", "2", "5">>}

Texts == UNION {[1..k -> TxtAlphabet] : k \in 0..MaxTxtLen} \cup HeldTexts

InitParse ==
    /\ pc = "call"
    /\ app \in {"sessions", "minimal"}
    /\ difficulty = "medium"
    /\ ansType = "fractions"
    /\ mode = "2x2"
    /\ call \in {[fn |-> "parseFraction", txt |-> t] : t \in Texts}
    /\ ret = Unset
    /\ rand = Unset
    /\ target = Unset
    /\ p = Unset
    /\ solved = Unset
    /\ ui = Unset

\* one call of parseFraction of App.tsx
Parse ==
    /\ app = "sessions"
    /\ pc = "call"
    /\ call.fn = "parseFraction"
    /\ ret' = parseFraction(call.txt)
    /\ pc' = "returned"
    /\ UNCHANGED <<ui, app, rand, difficulty, ansType, mode, target, p, solved, call>>

\* one call of parseFraction of part_000
Parse_v5 ==
    /\ app = "minimal"
    /\ pc = "call"
    /\ call.fn = "parseFraction"
    /\ ret' = parseFraction_v5(call.txt)
    /\ pc' = "returned"
    /\ UNCHANGED <<ui, app, rand, difficulty, ansType, mode, target, p, solved, call>>

NextParse == Parse \/ Parse_v5

SpecParse == InitParse /\ [][NextParse]_vars

(***************************************************************************)
(* Checking an answer: helpers of submit.                                   *)
(***************************************************************************)
\* 1 / eps of approx (eps = 1e-6)
ApproxInv == 1000000

\* approx with ten times the tolerance
approxLoose(a, b) ==
    /\ IsNum(a) /\ IsNum(b)
    /\ LET diff == NumAbs(NumSub(a, b))
       IN  diff.n <= diff.d \div (ApproxInv \div 10)

\* approx(a, b): Math.abs(a - b) <= eps; false when either is NaN
approx(a, b) ==
    /\ IsNum(a) /\ IsNum(b)
    /\ LET diff == NumAbs(NumSub(a, b))
       IN  diff.n <= diff.d \div ApproxInv

\* v || 0
orZero(v) == IF IsNum(v) /\ v.n # 0 THEN v ELSE NumOf(0)

\* v.toFixed(2) of an exact value: the magnitude rounded to hundredths, half up
toFixed2(v) ==
    LET m  == NumAbs(v)
        t1 == 10 * (m.n % m.d)
        t2 == 10 * (t1 % m.d)
        h  == 100 * (m.n \div m.d) + 10 * (t1 \div m.d) + (t2 \div m.d)
                  + (IF 2 * (t2 % m.d) >= m.d THEN 1 ELSE 0)
    IN  (IF v.n < 0 THEN "-" ELSE "") \o ToString(h \div 100) \o "."
            \o ToString((h % 100) \div 10) \o ToString(h % 10)

\* the candidate toRationalApprox tries for denominator q: p = Math.round(x*q)
\* and err = Math.abs(x - p/q)
rationalCandidate(x, q) ==
    LET p_ == MathRound(NumMul(x, NumOf(q)))
    IN  [p |-> p_, q |-> q, err |-> NumAbs(NumSub(x, Num(p_, q)))]

\* the loop of toRationalApprox keeps a candidate only when err < bestErr, so
\* it ends with the first denominator of 1..12 that reaches the least error
toRationalApprox(x) ==
    LET bestQ == CHOOSE q \in 1..12 :
                     \A r \in 1..12 :
                         LET cq == rationalCandidate(x, q)
                             cr == rationalCandidate(x, r)
                         IN  IF r < q THEN NumGt(cr.err, cq.err)
                             ELSE ~NumGt(cq.err, cr.err)
        b == rationalCandidate(x, bestQ)
        f == simplifyFraction(b.p, b.q)
    IN  ToString(f.num) \o "/" \o ToString(f.den)

\* (answer as any)[v] ?? ""
getAnswer(answer, v) == IF v \in DOMAIN answer THEN answer[v] ELSE <<>>

\* {...f, [v]: val}
setField(f, v, val) == [w \in DOMAIN f \cup {v} |-> IF w = v THEN val ELSE f[w]]

\* f without the key v
dropField(f, v) == [w \in DOMAIN f \ {v} |-> f[w]]

\* inputErr after validateField(name, value) of App.tsx
validateField(inputErr, name, value) ==
    IF Len(trim(value)) = 0 THEN setField(inputErr, name, "Required")
    ELSE IF ~isFinite(parseFraction(value))
         THEN setField(inputErr, name, "Enter number or a/b")
         ELSE dropField(inputErr, name)

\* inputErr after validateField(name, value) of part_000
validateField_v5(inputErr, name, value) ==
    IF Len(trim(value)) = 0 THEN setField(inputErr, name, "Required")
    ELSE IF ~isFinite(parseFraction_v5(value))
         THEN setField(inputErr, name, "Enter a number or a/b")
         ELSE dropField(inputErr, name)

\* inputErr after submit's loop  for(const v of p.variables) validateField(...)
RECURSIVE validateAll(_, _, _)
validateAll(inputErr, variables, answer) ==
    IF Len(variables) = 0 THEN inputErr
    ELSE validateAll(validateField(inputErr, Head(variables), getAnswer(answer, Head(variables))),
                     Tail(variables), answer)

RECURSIVE validateAll_v5(_, _, _)
validateAll_v5(inputErr, variables, answer) ==
    IF Len(variables) = 0 THEN inputErr
    ELSE validateAll_v5(validateField_v5(inputErr, Head(variables), getAnswer(answer, Head(variables))),
                        Tail(variables), answer)

\* the residual a*(x||0) + b*(y||0) [+ c*(z||0)] - d of one equation
residual(e, x, y, z) ==
    NumSub(NumAdd(NumAdd(NumMul(NumOf(e.a), orZero(x)), NumMul(NumOf(e.b), orZero(y))),
                  NumMul(NumOf(cOrZero(e)), orZero(z))),
           NumOf(e.d))

(***************************************************************************)
(* The session component of App.tsx.  ui holds the component state besides  *)
(* the configuration (mode, difficulty, ansType), the problem p and the      *)
(* solved memo.  Times are counted in tenths of a second.  A handler is one  *)
(* action: its state updates followed by the effects of the render they      *)
(* cause.  Consecutive problems are taken to get different identifiers.      *)
(***************************************************************************)
\* a Record<string,string> without keys
NoFields == [w \in {} |-> <<>>]

\* { reasons: [], steps: [] }; correctText is <<>> when undefined, else <<text>>
NoExplain == [reasons |-> <<>>, steps |-> <<>>, correctText |-> <<>>]

\* the solved memo: solve2 or solve3 of the problem
solvedMemo(prob) ==
    IF prob.mode = "2x2" THEN solve2(prob.eqs[1], prob.eqs[2]) ELSE solve3(prob.eqs)

\* the problem object when the solver called on it returns
solvedLeaves(prob) ==
    IF prob.mode = "3x3" THEN [prob EXCEPT !.eqs = solve3Leaves(prob.eqs)] ELSE prob

\* rendering throws when the workedSteps memo does
renderThrows(prob, sol) ==
    /\ sol # null
    /\ prob.mode = "2x2"
    /\ \E w \in {worked2x2Plan(prob.eqs[1], prob.eqs[2])} :
           simplifyFractionX(w.Bd, w.B) = RangeError

\* the component state at construction, before the first render
InitialUI ==
    [phase |-> "setup", answer |-> NoFields, inputErr |-> NoFields, status |-> "idle",
     explain |-> NoExplain, attemptsOnThis |-> 0, revealed |-> FALSE,
     sessionAttempts |-> <<>>,
     lifetime |-> [totalAttempts |-> 0, totalCorrect |-> 0, totalTimeSec |-> 0],
     runningProblem |-> FALSE, elapsedProblem |-> 0, sessionElapsed |-> 0,
     firstEdit |-> FALSE, timeouts |-> 0, fault |-> FALSE, workedSteps |-> <<>>,
     pastSessions |-> <<>>]

\* the safety-net effect: an idle timer starts when a field is non-empty
safetyNet(u, prob) ==
    IF /\ u.phase = "active"
       /\ ~u.runningProblem
       /\ \E i \in 1..Len(prob.variables) :
              /\ prob.variables[i] \in DOMAIN u.answer
              /\ Len(trim(u.answer[prob.variables[i]])) > 0
    THEN [u EXCEPT !.runningProblem = TRUE]
    ELSE u

\* the effect on p.id: the per-problem state is reset
resetProblemState(u) ==
    [u EXCEPT !.elapsedProblem = 0, !.answer = NoFields, !.status = "idle",
              !.explain = NoExplain, !.inputErr = NoFields, !.attemptsOnThis = 0,
              !.revealed = FALSE, !.firstEdit = FALSE]

\* the render after a handler that replaced the problem by prob, u being the
\* state the handler set: the workedSteps memo is recomputed (rendering fails
\* when it throws), then the safety net and the reset on p.id run, and the
\* safety net runs again on the emptied answer
rendered(u, prob, sol) ==
    safetyNet(resetProblemState(safetyNet(
                  [u EXCEPT !.fault = renderThrows(prob, sol),
                            !.workedSteps = IF renderThrows(prob, sol) THEN <<>>
                                            ELSE workedSteps(prob, sol)],
                  prob)),
              prob)

\* a check of the messages of the last render only
submitBlockedStale(inputErr, variables, answer) == DOMAIN inputErr # {}

\* Object.values(inputErr).length>0 || p.variables.some(v => answer[v] is blank)
submitBlocked(inputErr, variables, answer) ==
    \/ DOMAIN inputErr # {}
    \/ \E i \in 1..Len(variables) : Len(trim(getAnswer(answer, variables[i]))) = 0

\* the state submit sets when it is blocked
blockedResult(u) ==
    [u EXCEPT !.explain = [reasons |-> <<"Please fix input errors.">>, steps |-> <<>>,
                           correctText |-> <<>>],
              !.status = "wrong"]

\* a singular submit that is recorded in the lifetime statistics
singularResultCounted(u) ==
    [u EXCEPT !.explain = [reasons |-> <<"Singular system - generate a new one.">>,
                           steps |-> <<>>, correctText |-> <<>>],
              !.status = "wrong",
              !.lifetime = [@ EXCEPT !.totalAttempts = @ + 1]]

\* the state submit sets when neither solver has a solution
singularResult(u) ==
    [u EXCEPT !.explain = [reasons |-> <<"Singular system - generate a new one.">>,
                           steps |-> <<>>, correctText |-> <<>>],
              !.status = "wrong"]

\* x, y, z of submit
parsedAnswer(answer) ==
    [x |-> parseFraction(getAnswer(answer, "x")),
     y |-> parseFraction(getAnswer(answer, "y")),
     z |-> parseFraction(getAnswer(answer, "z"))]

\* ok of submit
answerOk(prob, sol, v) ==
    IF prob.mode = "2x2" THEN approx(v.x, sol.x) /\ approx(v.y, sol.y)
    ELSE approx(v.x, sol.x) /\ approx(v.y, sol.y) /\ approx(v.z, sol.z)

\* feedback of a wrong submit
residualText(prob, v) ==
    IF prob.mode = "2x2"
    THEN "Residuals: Eq(1) " \o toFixed2(residual(prob.eqs[1], v.x, v.y, NaN))
             \o ", Eq(2) " \o toFixed2(residual(prob.eqs[2], v.x, v.y, NaN))
    ELSE "Residuals: Eq(1) " \o toFixed2(residual(prob.eqs[1], v.x, v.y, v.z))
             \o ", Eq(2) " \o toFixed2(residual(prob.eqs[2], v.x, v.y, v.z))
             \o ", Eq(3) " \o toFixed2(residual(prob.eqs[3], v.x, v.y, v.z))

\* correctText of a wrong submit
correctTextOf(prob, sol) ==
    IF prob.mode = "2x2"
    THEN "x = " \o fracToText(sol.xNum, sol.xDen)
             \o ", y = " \o fracToText(sol.yNum, sol.yDen)
    ELSE "x ~ " \o toRationalApprox(sol.x) \o ", y ~ " \o toRationalApprox(sol.y)
             \o ", z ~ " \o toRationalApprox(sol.z)

\* nextTries of submit
nextTries(ok, attemptsOnThis) == IF ok THEN 0 ELSE attemptsOnThis + 1

\* revealNow of submit
revealNow(ok, attemptsOnThis) == ~ok /\ nextTries(ok, attemptsOnThis) >= 2

\* the explanation submit sets for a correct answer
explainCorrect ==
    [reasons |-> <<"Nice! Your values satisfy all equations.">>, steps |-> <<>>,
     correctText |-> <<>>]

\* the explanation submit sets for a wrong answer
explainWrong(prob, sol, v, reveal, steps) ==
    [reasons |-> IF reveal
                 THEN <<residualText(prob, v), "Answer revealed after two attempts.">>
                 ELSE <<residualText(prob, v)>>,
     steps |-> steps,
     correctText |-> IF reveal THEN <<correctTextOf(prob, sol)>> ELSE <<>>]

\* nextLife counting every attempt as correct
nextLifeAllCorrect(lifetime, ok, seconds) ==
    [totalAttempts |-> lifetime.totalAttempts + 1,
     totalCorrect  |-> lifetime.totalCorrect + 1,
     totalTimeSec  |-> lifetime.totalTimeSec + seconds]

\* nextLife of submit: the lifetime statistics with this attempt added
nextLife(lifetime, ok, seconds) ==
    [totalAttempts |-> lifetime.totalAttempts + 1,
     totalCorrect  |-> lifetime.totalCorrect + (IF ok THEN 1 ELSE 0),
     totalTimeSec  |-> lifetime.totalTimeSec + seconds]

\* the state submit sets when the answer, parsed as v, is evaluated
evaluated(u, prob, sol, v, diff_, mode_) ==
    LET ok == answerOk(prob, sol, v)
    IN  [u EXCEPT
            !.attemptsOnThis = nextTries(ok, @),
            !.revealed = revealNow(ok, u.attemptsOnThis) \/ @,
            !.explain = IF ok THEN explainCorrect
                        ELSE explainWrong(prob, sol, v, revealNow(ok, u.attemptsOnThis),
                                          u.workedSteps),
            !.status = IF ok THEN "correct" ELSE "wrong",
            !.sessionAttempts = Append(@, [seconds |-> u.elapsedProblem, correct |-> ok,
                                           difficulty |-> diff_, mode |-> mode_]),
            !.lifetime = nextLife(@, ok, u.elapsedProblem),
            !.runningProblem = IF ok THEN FALSE ELSE @,
            !.timeouts = IF ok THEN @ + 1 ELSE @]

(***************************************************************************)
(* What the learner types and what the random source returns while the      *)
(* components are exercised.                                                *)
(***************************************************************************)
DigitChar(k) == <<"0", "1", "2", "3", "4", "5", "6", "7", "8", "9">>[k + 1]

RECURSIVE natText(_)
natText(k) == IF k < 10 THEN <<DigitChar(k)>> ELSE Append(natText(k \div 10), DigitChar(k % 10))

intText(k) == IF k < 0 THEN <<"-">> \o natText(-k) ELSE natText(k)

\* the text "n/d", or "n" when d = 1
fractionText(n, d) == IF d = 1 THEN intText(n) ELSE intText(n) \o <<"/">> \o natText(d)

\* the exact fraction of the value s in lowest terms
ExactText(s) == fractionText(s.n, s.d)

\* a fraction half a tolerance or less above s
NearText(s) == fractionText(s.n * (2 * ApproxInv) + 1, s.d * (2 * ApproxInv))

\* a fraction more than a tolerance above s (for denominators below 10)
FarText(s) == fractionText(s.n * (ApproxInv \div 10) + 1, s.d * (ApproxInv \div 10))

\* texts typed whatever the problem: nothing, a blank, a letter, a number
PlainTexts == {<<>>, <<" ">>, <<"a">>, <<"1">>}

\* the texts typed into the field of variable v of a problem whose solver value is sol
AnswerTexts(v, sol) ==
    IF sol = null
    THEN IF v = "x" THEN PlainTexts ELSE {<<>>, <<"1">>}
    ELSE IF v = "x"
         THEN {<<>>, <<" ">>, <<"a">>, ExactText(sol.x), NearText(sol.x), FarText(sol.x)}
         ELSE IF v = "y" THEN {<<>>, <<"a">>, ExactText(sol.y)}
         ELSE {<<>>, ExactText(sol.z)}

\* the texts typed while the timers are followed: nothing or the exact value
FewTexts(v, sol) ==
    IF sol = null THEN {<<>>, <<"1">>}
    ELSE IF v = "x" THEN {<<>>, ExactText(sol.x)}
    ELSE IF v = "y" THEN {<<>>, ExactText(sol.y)}
    ELSE {<<>>, ExactText(sol.z)}

\* the texts the learner types: call, when set, names the narrower choice
TypedTexts(v, sol) ==
    IF call = Unset THEN AnswerTexts(v, sol) ELSE FewTexts(v, sol)

\* the coefficient draws of the problems of App.tsx: a regular draw and, for
\* three unknowns, a singular draw the adjustment does not repair
UICoefs(mode_) ==
    IF mode_ = "2x2"
    THEN {<<SM(1, 1), SM(1, 2), SM(-1, 3), SM(-1, 1)>>}
    ELSE {<<SM(1, 1), SM(1, 2), SM(-1, 1),
            SM(-1, 3), SM(1, 1), SM(1, 2),
            SM(1, 2), SM(-1, 1), SM(1, 3)>>,
          <<SM(1, 1), SM(1, 1), SM(1, 1),
            SM(1, 1), SM(1, 1), SM(1, 1),
            SM(1, 1), SM(1, 1), SM(1, 1)>>}

\* what the random source returns to genProblem of App.tsx for the problem after
\* the one with identifier lastId
UIDraws(mode_, lastId) ==
    IF mode_ = "2x2"
    THEN [id : {1 - lastId}, sol : {<<PQ(9, 4), PQ(-5, 6)>>}, co : UICoefs(mode_),
          scr : {<<ScrHeld, ScrHeld>>}]
    ELSE [id : {1 - lastId}, sol : {<<PQ(1, 2), PQ(-2, 3), PQ(3, 4)>>}, co : UICoefs(mode_),
          scr : {<<ScrHeld, ScrHeld, ScrHeld>>}]

(***************************************************************************)
(* The handlers of App.tsx.                                                 *)
(***************************************************************************)
\* the mode select of the setup view
setMode ==
    /\ app = "sessions"
    /\ ui.phase = "setup"
    /\ ~ui.fault
    /\ mode' \in {"2x2", "3x3"} \ {mode}
    /\ pc' = "configured"
    /\ UNCHANGED <<ui, app, rand, difficulty, ansType, target, p, solved, call, ret>>

startSession ==
    /\ app = "sessions"
    /\ ui.phase = "setup"
    /\ ~ui.fault
    /\ \E r \in UIDraws(mode, p.id) :
          /\ rand' = r
          /\ p' = genProblem(mode, difficulty, ansType, r)
    /\ solved' = solvedMemo(p')
    /\ ui' = rendered([ui EXCEPT !.sessionElapsed = 0, !.sessionAttempts = <<>>,
                                 !.phase = "active", !.runningProblem = TRUE],
                       p', solved')
    /\ pc' = "started"
    /\ UNCHANGED <<app, difficulty, ansType, mode, target, call, ret>>

\* the Skip / New button: newProblem
SkipNew ==
    /\ app = "sessions"
    /\ ui.phase = "active"
    /\ ~ui.fault
    /\ \E r \in UIDraws(mode, p.id) :
          /\ rand' = r
          /\ p' = genProblem(mode, difficulty, ansType, r)
    /\ solved' = solvedMemo(p')
    /\ ui' = rendered([ui EXCEPT !.runningProblem = TRUE], p', solved')
    /\ pc' = "new"
    /\ UNCHANGED <<app, difficulty, ansType, mode, target, call, ret>>

\* the callback of setTimeout(()=> newProblem(), 200)
newProblemTimeout ==
    /\ app = "sessions"
    /\ ~ui.fault
    /\ ui.timeouts > 0
    /\ \E r \in UIDraws(mode, p.id) :
          /\ rand' = r
          /\ p' = genProblem(mode, difficulty, ansType, r)
    /\ solved' = solvedMemo(p')
    /\ ui' = rendered([ui EXCEPT !.runningProblem = TRUE, !.timeouts = @ - 1], p', solved')
    /\ pc' = "new"
    /\ UNCHANGED <<app, difficulty, ansType, mode, target, call, ret>>

onAnswerEdit ==
    /\ app = "sessions"
    /\ ui.phase = "active"
    /\ ~ui.fault
    /\ \E i \in 1..Len(p.variables) :
       \E val \in TypedTexts(p.variables[i], solved) :
       \E first \in {~ui.firstEdit /\ ui.phase = "active"} :
          /\ getAnswer(ui.answer, p.variables[i]) # val
          /\ \E u \in {[ui EXCEPT !.answer = setField(@, p.variables[i], val),
                                  !.inputErr = validateField(@, p.variables[i], val),
                                  !.firstEdit = first \/ @,
                                  !.runningProblem = first \/ @]} :
                ui' = safetyNet(u, p)
    /\ pc' = "edited"
    /\ UNCHANGED <<app, rand, difficulty, ansType, mode, target, p, solved, call, ret>>

submit ==
    /\ app = "sessions"
    /\ ui.phase = "active"
    /\ ~ui.fault
    /\ ui.lifetime.totalAttempts < MaxAttempts
    /\ \E validated \in {[ui EXCEPT !.inputErr = validateAll(@, p.variables, ui.answer)]} :
       \E sol \in {solvedMemo(p)} :
          IF submitBlocked(ui.inputErr, p.variables, ui.answer)
          THEN /\ ui' = safetyNet(blockedResult(validated), p)
               /\ pc' = "blocked"
               /\ p' = p
          ELSE IF sol = null
          THEN /\ ui' = safetyNet(singularResult(validated), p)
               /\ pc' = "singular"
               /\ p' = solvedLeaves(p)
          ELSE /\ \E v \in {parsedAnswer(ui.answer)} :
                  \E u \in {evaluated(validated, p, sol, v, difficulty, mode)} :
                      ui' = safetyNet(u, p)
               /\ pc' = "evaluated"
               /\ p' = solvedLeaves(p)
    /\ UNCHANGED <<app, rand, difficulty, ansType, mode, target, solved, call, ret>>

(***************************************************************************)
(* Timers and the end of a session, App.tsx.  Times are counted in tenths   *)
(* of a second.                                                             *)
(***************************************************************************)
\* minutes * 60
sessionTotal == MaxSessionTenths

\* Math.max(0, sessionTotal - sessionElapsed)
sessionRemaining(u) ==
    IF sessionTotal - u.sessionElapsed > 0 THEN sessionTotal - u.sessionElapsed ELSE 0

\* the number of correct attempts of the session
sessionCorrect(attempts) == Len(SelectSeq(attempts, LAMBDA a : a.correct))

\* endSession leaving the problem timer as it is
endSessionKeepsTimer(u) ==
    [u EXCEPT !.pastSessions = Append(@, [attempts |-> Len(u.sessionAttempts),
                                          correct |-> sessionCorrect(u.sessionAttempts),
                                          actualSeconds |-> u.sessionElapsed]),
              !.phase = "summary"]

\* the state endSession sets: the summary is stored, the phase is summary and
\* the problem timer is stopped
endSessionResult(u) ==
    [u EXCEPT !.pastSessions = Append(@, [attempts |-> Len(u.sessionAttempts),
                                          correct |-> sessionCorrect(u.sessionAttempts),
                                          actualSeconds |-> u.sessionElapsed]),
              !.phase = "summary",
              !.runningProblem = FALSE]

\* the time-up effect never ending the session
timeUpNever(u) == u

\* the time-up effect: the session ends when no time remains
timeUp(u) ==
    IF u.phase = "active" /\ sessionRemaining(u) <= 0 THEN endSessionResult(u) ELSE u

\* one tick of the session timer (every 200 ms while the phase is active),
\* followed by the time-up effect
tickSession ==
    /\ app = "sessions"
    /\ ui.phase = "active"
    /\ ~ui.fault
    /\ ui' = timeUp([ui EXCEPT !.sessionElapsed = @ + 2])
    /\ pc' = "ticked"
    /\ UNCHANGED <<app, rand, difficulty, ansType, mode, target, p, solved, call, ret>>

\* one tick of the problem timer (every 100 ms while it runs in an active session)
tickProblem ==
    /\ app = "sessions"
    /\ ui.phase = "active"
    /\ ui.runningProblem
    /\ ~ui.fault
    /\ ui.elapsedProblem < MaxProblemTenths
    /\ ui' = [ui EXCEPT !.elapsedProblem = @ + 1]
    /\ pc' = "ticked"
    /\ UNCHANGED <<app, rand, difficulty, ansType, mode, target, p, solved, call, ret>>

\* the End session button of the active view
endSession ==
    /\ app = "sessions"
    /\ ui.phase = "active"
    /\ ~ui.fault
    /\ ui' = endSessionResult(ui)
    /\ pc' = "ended"
    /\ UNCHANGED <<app, rand, difficulty, ansType, mode, target, p, solved, call, ret>>

(***************************************************************************)
(* The component of part_000.                                               *)
(***************************************************************************)
\* sol2 / sol3 of submit
solvedMemo_v5(prob) ==
    IF prob.mode = "2x2" THEN solve2_v5(prob.eqs[1], prob.eqs[2]) ELSE solve3_v5(prob.eqs)

\* the component state after construction
InitialUI_v5 ==
    [answer |-> NoFields, inputErr |-> NoFields, status |-> "idle", explain |-> NoExplain,
     attemptsOnThis |-> 0,
     session |-> [attempts |-> 0, correct |-> 0, timeSec |-> 0],
     lifetime |-> [totalAttempts |-> 0, totalCorrect |-> 0, totalTimeSec |-> 0],
     history |-> <<>>, running |-> FALSE, elapsed |-> 0]

\* the reset effect on p.id
resetProblemState_v5(u) ==
    [u EXCEPT !.elapsed = 0, !.answer = NoFields, !.status = "idle", !.explain = NoExplain,
              !.inputErr = NoFields, !.attemptsOnThis = 0]

\* Object.keys(inputErr).length>0
submitBlocked_v5(inputErr) == DOMAIN inputErr # {}

\* the state submit sets when it is blocked
blockedResult_v5(u) ==
    [u EXCEPT !.explain = [reasons |-> <<"Please fix input errors.">>, steps |-> <<>>,
                           correctText |-> <<>>],
              !.status = "wrong"]

\* the state submit sets when neither solver has a solution
singularResult_v5(u) ==
    [u EXCEPT !.explain = [reasons |-> <<"This system is singular. Click New to regenerate.">>,
                           steps |-> <<>>, correctText |-> <<>>],
              !.status = "wrong"]

parsedAnswer_v5(answer) ==
    [x |-> parseFraction_v5(getAnswer(answer, "x")),
     y |-> parseFraction_v5(getAnswer(answer, "y")),
     z |-> parseFraction_v5(getAnswer(answer, "z"))]

residualText_v5(prob, v) ==
    IF prob.mode = "2x2"
    THEN "Eq(1) residual: " \o toFixed2(residual(prob.eqs[1], v.x, v.y, NaN))
             \o "; Eq(2) residual: " \o toFixed2(residual(prob.eqs[2], v.x, v.y, NaN)) \o "."
    ELSE "Residuals - Eq(1): " \o toFixed2(residual(prob.eqs[1], v.x, v.y, v.z))
             \o ", Eq(2): " \o toFixed2(residual(prob.eqs[2], v.x, v.y, v.z))
             \o ", Eq(3): " \o toFixed2(residual(prob.eqs[3], v.x, v.y, v.z)) \o "."

correctTextOf_v5(prob, sol) ==
    IF prob.mode = "2x2"
    THEN "Correct: x = " \o fracToText(sol.xNum, sol.xDen)
             \o ", y = " \o fracToText(sol.yNum, sol.yDen)
    ELSE "Correct (~): x = " \o toRationalApprox(sol.x) \o ", y = " \o toRationalApprox(sol.y)
             \o ", z = " \o toRationalApprox(sol.z)

\* the explanation submit sets for a wrong answer: the correct answer is always in it
explainWrong_v5(prob, sol, v, tries) ==
    [reasons |-> IF tries >= 2
                 THEN <<residualText_v5(prob, v), "Answer revealed after two attempts.">>
                 ELSE <<residualText_v5(prob, v)>>,
     steps |-> buildOptimalSteps(prob),
     correctText |-> <<correctTextOf_v5(prob, sol)>>]

\* the state submit sets when the answer, parsed as v, is evaluated
evaluated_v5(u, prob, sol, v) ==
    LET ok == answerOk(prob, sol, v)
    IN  [u EXCEPT
            !.explain = IF ok THEN explainCorrect
                        ELSE explainWrong_v5(prob, sol, v, nextTries(ok, u.attemptsOnThis)),
            !.attemptsOnThis = nextTries(ok, @),
            !.status = IF ok THEN "correct" ELSE "wrong",
            !.session = [attempts |-> @.attempts + 1,
                         correct  |-> @.correct + (IF ok THEN 1 ELSE 0),
                         timeSec  |-> @.timeSec + u.elapsed],
            !.lifetime = [totalAttempts |-> @.totalAttempts + 1,
                          totalCorrect  |-> @.totalCorrect + (IF ok THEN 1 ELSE 0),
                          totalTimeSec  |-> @.totalTimeSec + u.elapsed],
            !.history = Append(@, [seconds |-> u.elapsed, correct |-> ok])]

\* what the random source returns to genProblem of part_000 for the problem after
\* the one with identifier lastId: a regular draw and, for three unknowns, a
\* singular draw the adjustment does not repair
UIDraws_v5(mode_, lastId) ==
    IF mode_ = "2x2"
    THEN [id : {1 - lastId}, sol : {<<PQ(1, 2), PQ(-3, 2)>>}, q : {2},
          co : {<<1, 2, -3, -1>>}, scr : {<<ScrHeld, ScrHeld>>}]
    ELSE [id : {1 - lastId}, sol : {<<PQ(1, 2), PQ(-3, 2), PQ(1, 2)>>}, q : {2},
          co : {<<1, 2, -1, -3, 1, 2, 2, -1, 3>>, <<1, 1, 1, 1, 1, 1, 1, 1, 1>>},
          scr : {<<ScrHeld, ScrHeld, ScrHeld>>}]

\* a mode button: setMode(m); setP(genProblem(m, difficulty, ansType))
setMode_v5 ==
    /\ app = "minimal"
    /\ mode' \in {"2x2", "3x3"} \ {mode}
    /\ \E r \in UIDraws_v5(mode', p.id) :
          /\ rand' = r
          /\ p' = genProblem_v5(mode', difficulty, ansType, r)
    /\ ui' = resetProblemState_v5(ui)
    /\ pc' = "configured"
    /\ UNCHANGED <<app, difficulty, ansType, target, solved, call, ret>>

\* the New button: newProblem
New_v5 ==
    /\ app = "minimal"
    /\ \E r \in UIDraws_v5(mode, p.id) :
          /\ rand' = r
          /\ p' = genProblem_v5(mode, difficulty, ansType, r)
    /\ ui' = resetProblemState_v5(ui)
    /\ pc' = "new"
    /\ UNCHANGED <<app, difficulty, ansType, mode, target, solved, call, ret>>

\* onChange of an answer field: setAnswer({...answer, [v]: value}); validateField(v, value)
onChange_v5 ==
    /\ app = "minimal"
    /\ \E sol \in {solvedMemo_v5(p)} :
       \E i \in 1..Len(p.variables) :
       \E val \in AnswerTexts(p.variables[i], sol) :
          /\ getAnswer(ui.answer, p.variables[i]) # val
          /\ ui' = [ui EXCEPT !.answer = setField(@, p.variables[i], val),
                              !.inputErr = validateField_v5(@, p.variables[i], val)]
    /\ pc' = "edited"
    /\ UNCHANGED <<app, rand, difficulty, ansType, mode, target, p, solved, call, ret>>

submit_v5 ==
    /\ app = "minimal"
    /\ ui.lifetime.totalAttempts < MaxAttempts
    /\ \E sol \in {solvedMemo_v5(p)} :
       \E validated \in {[ui EXCEPT !.inputErr = validateAll_v5(@, p.variables, ui.answer)]} :
          IF submitBlocked_v5(ui.inputErr)
          THEN /\ ui' = blockedResult_v5(validated)
               /\ pc' = "blocked"
          ELSE IF sol = null
          THEN /\ ui' = singularResult_v5(validated)
               /\ pc' = "singular"
          ELSE /\ \E v \in {parsedAnswer_v5(ui.answer)} :
                      ui' = evaluated_v5(validated, p, sol, v)
               /\ pc' = "evaluated"
    /\ p' = solvedLeaves(p)
    /\ UNCHANGED <<app, rand, difficulty, ansType, mode, target, solved, call, ret>>

(***************************************************************************)
(* Both components, from construction on.                                   *)
(***************************************************************************)
InitUI ==
    /\ pc = "constructed"
    /\ mode = "2x2"
    /\ difficulty = "medium"
    /\ ansType = "fractions"
    /\ \/ /\ app = "sessions"
          /\ rand \in UIDraws("2x2", 1)
          /\ p = genProblem(mode, difficulty, ansType, rand)
          /\ solved = solvedMemo(p)
          /\ ui = [InitialUI EXCEPT !.fault = renderThrows(p, solved),
                                    !.workedSteps = IF renderThrows(p, solved) THEN <<>>
                                                    ELSE workedSteps(p, solved)]
       \/ /\ app = "minimal"
          /\ rand \in UIDraws_v5("2x2", 1)
          /\ p = genProblem_v5(mode, difficulty, ansType, rand)
          /\ solved = Unset
          /\ ui = InitialUI_v5
    /\ target = Unset
    /\ NoCall

NextUI ==
    \/ setMode \/ startSession \/ onAnswerEdit \/ submit \/ SkipNew \/ newProblemTimeout
    \/ setMode_v5 \/ onChange_v5 \/ submit_v5 \/ New_v5

SpecUI == InitUI /\ [][NextUI]_vars

(***************************************************************************)
(* A session of App.tsx with its timers, from construction on.              *)
(***************************************************************************)
InitSession ==
    /\ pc = "constructed"
    /\ app = "sessions"
    /\ mode = "2x2"
    /\ difficulty = "medium"
    /\ ansType = "fractions"
    /\ rand \in UIDraws("2x2", 1)
    /\ p = genProblem(mode, difficulty, ansType, rand)
    /\ solved = solvedMemo(p)
    /\ ui = [InitialUI EXCEPT !.fault = renderThrows(p, solved),
                              !.workedSteps = IF renderThrows(p, solved) THEN <<>>
                                              ELSE workedSteps(p, solved)]
    /\ target = Unset
    /\ call = [texts |-> "few"]
    /\ ret = Unset

NextSession ==
    \/ startSession \/ onAnswerEdit \/ submit \/ newProblemTimeout
    \/ tickSession \/ tickProblem \/ endSession

SpecSession == InitSession /\ [][NextSession]_vars

\* the interval of the session timer keeps firing while the phase is active
SpecSessionFair == SpecSession /\ WF_vars(tickSession)

(***************************************************************************)
(* Simplifying directly supplied fractions (the helper is the same code in  *)
(* both versions).                                                          *)
(***************************************************************************)
FracCalls ==
    {[fn |-> "simplifyFraction", num |-> n_, den |-> d_] :
        n_ \in -MaxNum .. MaxNum, d_ \in (-MaxDen .. MaxDen) \ {0}}

InitFrac ==
    /\ pc = "call"
    /\ app \in {"sessions", "minimal"}
    /\ difficulty = "medium"
    /\ ansType = "fractions"
    /\ mode = "2x2"
    /\ call \in FracCalls
    /\ ret = Unset
    /\ rand = Unset
    /\ target = Unset
    /\ p = Unset
    /\ solved = Unset
    /\ ui = Unset

\* one call of simplifyFraction
Simplify ==
    /\ pc = "call"
    /\ call.fn = "simplifyFraction"
    /\ ret' = simplifyFraction(call.num, call.den)
    /\ pc' = "returned"
    /\ UNCHANGED <<ui, app, rand, difficulty, ansType, mode, target, p, solved, call>>

\* simplifyFraction called on the pair it has just returned
Resimplify ==
    /\ pc = "returned"
    /\ call.fn = "simplifyFraction"
    /\ call' = [fn |-> "simplifyFraction", num |-> ret.num, den |-> ret.den,
                first |-> call]
    /\ ret' = simplifyFraction(ret.num, ret.den)
    /\ pc' = "resimplified"
    /\ UNCHANGED <<ui, app, rand, difficulty, ansType, mode, target, p, solved>>

NextFrac == Simplify \/ Resimplify

SpecFrac == InitFrac /\ [][NextFrac]_vars

(***************************************************************************)
(* Rendering directly supplied sides (formatSide of both versions).         *)
(***************************************************************************)
\* the coefficients and constants handed to formatSide
SideCoefs == -MaxSide .. MaxSide

SideCalls ==
    {[fn |-> "formatSide", ax |-> ax_, by |-> by_, cz |-> cz_, k |-> k_, includeZ |-> z_] :
        ax_ \in SideCoefs, by_ \in SideCoefs, cz_ \in SideCoefs,
        k_ \in SideCoefs \cup {-12, 12}, z_ \in BOOLEAN}

InitFormat ==
    /\ pc = "call"
    /\ app \in {"sessions", "minimal"}
    /\ difficulty = "medium"
    /\ ansType = "fractions"
    /\ mode = "2x2"
    /\ call \in SideCalls
    /\ ret = Unset
    /\ rand = Unset
    /\ target = Unset
    /\ p = Unset
    /\ solved = Unset
    /\ ui = Unset

\* one call of formatSide of App.tsx
Format ==
    /\ pc = "call"
    /\ app = "sessions"
    /\ call.fn = "formatSide"
    /\ ret' = formatSide(call.ax, call.by, call.cz, call.k, call.includeZ)
    /\ pc' = "returned"
    /\ UNCHANGED <<ui, app, rand, difficulty, ansType, mode, target, p, solved, call>>

\* one call of formatSide of part_000
Format_v5 ==
    /\ pc = "call"
    /\ app = "minimal"
    /\ call.fn = "formatSide"
    /\ ret' = formatSide_v5(call.ax, call.by, call.cz, call.k, call.includeZ)
    /\ pc' = "returned"
    /\ UNCHANGED <<ui, app, rand, difficulty, ansType, mode, target, p, solved, call>>

NextFormat == Format \/ Format_v5

SpecFormat == InitFormat /\ [][NextFormat]_vars

(***************************************************************************)
(* Properties of generation (SpecGen).                                      *)
(***************************************************************************)
\* the determinant of the two stored equations
Det2(eqs) == eqs[1].a * eqs[2].b - eqs[1].b * eqs[2].a

\* the determinant of the three stored equations (rule of Sarrus)
Det3(eqs) ==
    eqs[1].a * eqs[2].b * eqs[3].c + eqs[1].b * eqs[2].c * eqs[3].a
    + eqs[1].c * eqs[2].a * eqs[3].b - eqs[1].c * eqs[2].b * eqs[3].a
    - eqs[1].b * eqs[2].a * eqs[3].c - eqs[1].a * eqs[2].c * eqs[3].b

\* the coefficient the random source drew at position i, before any adjustment,
\* divided by the common multiplier
Drawn(i) == IF app = "sessions" THEN rand.co[i].s * rand.co[i].m ELSE rand.co[i]

DrawnSingular2 == Drawn(1) * Drawn(4) - Drawn(2) * Drawn(3) = 0

DrawnSingular3 ==
    Det3(<<[a |-> Drawn(1), b |-> Drawn(2), c |-> Drawn(3)],
           [a |-> Drawn(4), b |-> Drawn(5), c |-> Drawn(6)],
           [a |-> Drawn(7), b |-> Drawn(8), c |-> Drawn(9)]>>) = 0

Generated == pc \in {"generated", "solved"} /\ rand # Unset

\* C1: a generated two-unknown problem (gen2x2 of App.tsx, randMatrix2 of
\* part_000) never stores a singular coefficient matrix; in particular a draw
\* of determinant 0 is made regular by the single adjustment d += L.
C1_TwoUnknownsRegular ==
    (Generated /\ mode = "2x2") => Det2(p.eqs) # 0

\* C1 witness: App.tsx drew a singular matrix and the stored one is regular
C1_Witness ==
    /\ Generated /\ mode = "2x2" /\ app = "sessions"
    /\ DrawnSingular2
    /\ Det2(p.eqs) # 0

\* C2: a generated three-unknown problem never stores a singular coefficient
\* matrix (the claim as stated; the code violates it).
C2_ThreeUnknownsRegular ==
    (Generated /\ mode = "3x3" /\ app = "sessions") => Det3(p.eqs) # 0

\* the least common multiple of the target's denominators
TargetL ==
    LET l2 == (target.qx * target.qy) \div NatGcd(target.qx, target.qy)
    IN  IF mode = "2x2" THEN l2 ELSE (l2 * target.qz) \div NatGcd(l2, target.qz)

\* the left-hand side of stored equation e at the target solution, exactly
AtTarget(e) ==
    IF mode = "2x2" THEN lin2(e.a, e.b, target.x, target.y)
    ELSE lin3(e.a, e.b, e.c, target.x, target.y, target.z)

\* C3: in App.tsx every stored coefficient is a multiple of L, every right-hand
\* side coefficient * target is an integer, the stored d is that value, and the
\* target satisfies every stored equation exactly.
C3_RhsExact ==
    (Generated /\ app = "sessions") =>
        \A i \in 1..Len(p.eqs) :
            LET e == p.eqs[i]
            IN  /\ e.a % TargetL = 0
                /\ e.b % TargetL = 0
                /\ e.c % TargetL = 0
                /\ IsInteger(AtTarget(e))
                /\ NumOf(e.d) = AtTarget(e)

\* C3 witness: a three-unknown fraction problem whose draw was singular, with
\* three different denominators in the target
C3_Witness ==
    /\ Generated /\ app = "sessions" /\ mode = "3x3" /\ ansType = "fractions"
    /\ DrawnSingular3
    /\ Cardinality({target.qx, target.qy, target.qz}) = 3
    /\ ~IsInteger(target.x)

\* C4: in part_000 the linear combination at the target is already an integer,
\* so the stored right-hand side equals it and the target satisfies every
\* stored equation (the claim as stated; the code violates it).
C4_RhsExact_v5 ==
    (Generated /\ app = "minimal") =>
        \A i \in 1..Len(p.eqs) :
            LET e == p.eqs[i]
                v == IF mode = "2x2" THEN lin2(e.a, e.b, target.x, target.y)
                     ELSE lin3(e.a, e.b, e.c, target.x, target.y, target.z)
            IN  IsInteger(v) /\ NumOf(e.d) = v

\* C7: whenever solve3 returns a result for a problem of gen3x3, the returned
\* x, y, z satisfy all three stored equations exactly, whatever rows were swapped.
C7_Solve3Satisfies ==
    (pc = "solved" /\ Generated /\ app = "sessions" /\ mode = "3x3" /\ solved # null) =>
        \A i \in 1..3 :
            lin3(p.eqs[i].a, p.eqs[i].b, p.eqs[i].c, solved.x, solved.y, solved.z)
                = NumOf(p.eqs[i].d)

\* C7 witness: a solved problem for which the first pivot step swapped rows
C7_Witness ==
    /\ pc = "solved" /\ Generated /\ app = "sessions" /\ mode = "3x3"
    /\ solved # null
    /\ pivotRow(augmented(p.eqs), 1) # 1
    /\ ~IsInteger(solved.x)

\* C8: solve3 returns null exactly when the determinant of the system is zero.
C8_Solve3NullIffSingular ==
    (pc = "solved" /\ Generated /\ mode = "3x3") =>
        ((solved = null) <=> (Det3(p.eqs) = 0))

\* C8 witness: a singular generated system, answered with null
C8_Witness ==
    /\ pc = "solved" /\ Generated /\ mode = "3x3"
    /\ Det3(p.eqs) = 0
    /\ solved = null

(***************************************************************************)
(* Properties of the solvers on directly supplied systems (SpecSolve).      *)
(***************************************************************************)
\* C5: solve2 returns null exactly when D = e1.a*e2.b - e1.b*e2.a is 0.
C5_Solve2NullIffSingular ==
    (pc = "solved" /\ mode = "2x2") =>
        ((solved = null) <=> (Det2(p.eqs) = 0))

\* C5 witness: a singular pair with non-zero coefficients was answered with null
C5_Witness ==
    /\ pc = "solved" /\ mode = "2x2"
    /\ p.eqs[1].a # 0 /\ p.eqs[2].b # 0
    /\ Det2(p.eqs) = 0
    /\ solved = null

\* the fraction num/den is in lowest terms with a positive denominator and equals v
LowestTermsOf(num, den, v) ==
    /\ den > 0
    /\ NatGcd(Abs(num), den) = 1
    /\ num * v.d = v.n * den

\* C6: for D # 0 solve2 returns x and y that satisfy both equations exactly, and
\* (xNum, xDen), (yNum, yDen) are those values in lowest terms with positive
\* denominator; 2x+3y=7, x-y=1 gives 2 and 1; 4x=6, 4y=-5 gives 3/2 and -5/4.
C6_Solve2Exact ==
    (pc = "solved" /\ app = "sessions" /\ mode = "2x2" /\ Det2(p.eqs) # 0) =>
        /\ solved # null
        /\ \A i \in 1..2 :
              lin2(p.eqs[i].a, p.eqs[i].b, solved.x, solved.y) = NumOf(p.eqs[i].d)
        /\ LowestTermsOf(solved.xNum, solved.xDen, solved.x)
        /\ LowestTermsOf(solved.yNum, solved.yDen, solved.y)
        /\ (p.eqs = Scenario1(app)) => (solved.x = NumOf(2) /\ solved.y = NumOf(1))
        /\ (p.eqs = Scenario2(app)) =>
              /\ solved.xNum = 3 /\ solved.xDen = 2
              /\ solved.yNum = -5 /\ solved.yDen = 4

\* C6 witness: a pair with a negative determinant was solved to a negative
\* proper fraction, so the sign had to move from the denominator
C6_Witness ==
    /\ pc = "solved" /\ app = "sessions" /\ mode = "2x2"
    /\ Det2(p.eqs) < -1
    /\ solved # null
    /\ solved.xDen > 1 /\ solved.xNum < 0

\* C9 as stated: for x+y+z=6, x+2y+3z=14, 2x-y+z=5 solve3 yields x=2, y=1, z=3.
C9_Scenario3AsStated ==
    (pc = "solved" /\ p.eqs = Scenario3) =>
        solved = [x |-> NumOf(2), y |-> NumOf(1), z |-> NumOf(3)]

\* C9 amended: for x+y+z=6, x+2y+3z=14, 2x-y+z=5 solve3 yields x=7/5, y=6/5,
\* z=17/5, the only solution of that system.
C9_Scenario3 ==
    (pc = "solved" /\ p.eqs = Scenario3) =>
        solved = [x |-> Num(7, 5), y |-> Num(6, 5), z |-> Num(17, 5)]

\* C9 witness: the scenario was solved by App.tsx and its result satisfies it
C9_Witness ==
    /\ pc = "solved" /\ app = "sessions" /\ p.eqs = Scenario3
    /\ solved # null
    /\ \A i \in 1..3 :
          lin3(p.eqs[i].a, p.eqs[i].b, p.eqs[i].c, solved.x, solved.y, solved.z)
              = NumOf(p.eqs[i].d)

(***************************************************************************)
(* Properties of the display scrambling (SpecScramble).                     *)
(***************************************************************************)
\* the coefficient a side shows for term t, 0 when the term is omitted
CoefOf(toks, t) ==
    IF \E i \in 1..Len(toks) : toks[i].t = t
    THEN toks[CHOOSE i \in 1..Len(toks) : toks[i].t = t].coef
    ELSE 0

\* C10: scrambleLinear of App.tsx: moving every right-side term to the left gives
\* back the equation: axL-axR = a, byL-byR = b, czL-czR = c (with includeZ) and
\* kR-kL = d, both for the computed contributions and for the rendered sides.
C10_ScrambleRoundTrip ==
    (pc = "returned" /\ app = "sessions") =>
        LET e == call.e
            s == ret.parts
        IN  /\ s.axL - s.axR = e.a
            /\ s.byL - s.byR = e.b
            /\ call.includeZ => s.czL - s.czR = e.c
            /\ s.kR - s.kL = e.d
            /\ CoefOf(ret.L, "x") - CoefOf(ret.R, "x") = e.a
            /\ CoefOf(ret.L, "y") - CoefOf(ret.R, "y") = e.b
            /\ CoefOf(ret.L, "z") - CoefOf(ret.R, "z") = (IF call.includeZ THEN e.c ELSE 0)
            /\ CoefOf(ret.R, "const") - CoefOf(ret.L, "const") = e.d

\* C10 witness: a three-unknown equation with non-zero right-hand side was
\* scrambled and a term cancelled on the right, so that side omits it
C10_Witness ==
    /\ pc = "returned" /\ app = "sessions"
    /\ call.includeZ
    /\ call.e.d # 0 /\ call.e.b # 0
    /\ CoefOf(ret.R, "y") = 0
    /\ Len(ret.R) < 4

\* the equation a displayed pair of sides states, every right-side term moved left
Displayed(L, R) ==
    [a |-> CoefOf(L, "x") - CoefOf(R, "x"),
     b |-> CoefOf(L, "y") - CoefOf(R, "y"),
     c |-> CoefOf(L, "z") - CoefOf(R, "z"),
     d |-> CoefOf(R, "const") - CoefOf(L, "const")]

\* two linear equations a x + b y + c z = d have the same set of solutions
SameSolutions(u, v) ==
    IF u.a = 0 /\ u.b = 0 /\ u.c = 0
    THEN /\ v.a = 0 /\ v.b = 0 /\ v.c = 0
         /\ (u.d = 0) <=> (v.d = 0)
    ELSE /\ ~(v.a = 0 /\ v.b = 0 /\ v.c = 0)
         /\ u.a * v.b = u.b * v.a /\ u.a * v.c = u.c * v.a /\ u.b * v.c = u.c * v.b
         /\ u.a * v.d = u.d * v.a /\ u.b * v.d = u.d * v.b /\ u.c * v.d = u.d * v.c

\* the standard form submit solves: a x + b y [+ c z] = d
Hidden(e, includeZ) ==
    [a |-> e.a, b |-> e.b, c |-> IF includeZ THEN cOrZero(e) ELSE 0, d |-> e.d]

\* C11: in part_000 the equation scrambleLinear displays has the same solution
\* set as the hidden standard form a x + b y [+ c z] = d (the claim as stated;
\* the code moves the constant with the wrong sign).
C11_DisplaySameSolutions_v5 ==
    (pc = "returned" /\ app = "minimal") =>
        SameSolutions(Hidden(call.e, call.includeZ), Displayed(ret.L, ret.R))

\* e can be the first equation gen2x2 / gen3x3 of App.tsx returns for an
\* integer target (L = 1, hard difficulty): coefficients sign x magnitude
IsGenerated(e, includeZ) ==
    IF includeZ
    THEN /\ Abs(e.a) \in base3("hard") /\ Abs(e.b) \in base3("hard")
         /\ Abs(e.c) \in base3("hard")
         /\ \E x \in rnd(-4, 4), y \in rnd(-4, 4), z \in rnd(-4, 4) :
               e.a * x + e.b * y + e.c * z = e.d
    ELSE /\ Abs(e.a) \in base2("hard") /\ Abs(e.b) \in base2("hard")
         /\ e.c = 0
         /\ \E x \in rnd(-6, 6), y \in rnd(-6, 6) : e.a * x + e.b * y = e.d

\* side S shows exactly the terms a x + b y [+ c z] and side T only the constant d
IsCanonical(S, T, e, includeZ) ==
    /\ S = sideToks(e.a, e.b, e.c, 0, includeZ)
    /\ T = sideToks(0, 0, 0, e.d, includeZ)

\* C12: for a generated equation the display of scrambleLinear (App.tsx) never
\* has one side showing exactly a x + b y [+ c z] and the other only d (the claim
\* as stated; the draws axL = a, byL = b, czL = c, kL = 0 produce just that).
C12_DisplayNotCanonical ==
    (pc = "returned" /\ app = "sessions" /\ IsGenerated(call.e, call.includeZ)) =>
        /\ ~IsCanonical(ret.L, ret.R, call.e, call.includeZ)
        /\ ~IsCanonical(ret.R, ret.L, call.e, call.includeZ)

(***************************************************************************)
(* Properties of simplifyFraction (SpecFrac).                               *)
(***************************************************************************)
\* C13: for den # 0 simplifyFraction returns a pair of the same value with
\* den > 0 and gcd(|num|, den) = 1 (0 becomes 0/1), and simplifying its own
\* output returns that output unchanged.
C13_SimplifyFraction ==
    /\ (pc \in {"returned", "resimplified"} /\ call.fn = "simplifyFraction") =>
          /\ ret.num * call.den = call.num * ret.den
          /\ ret.den > 0
          /\ NatGcd(Abs(ret.num), ret.den) = 1
          /\ (call.num = 0) => (ret.num = 0 /\ ret.den = 1)
    /\ (pc = "resimplified" /\ call.fn = "simplifyFraction") =>
          ret = [num |-> call.num, den |-> call.den]

\* C13 witness: a reducible fraction with a negative denominator was simplified
\* and its result simplified again
C13_Witness ==
    /\ pc = "resimplified" /\ call.fn = "simplifyFraction"
    /\ call.first.num = 6 /\ call.first.den = -8
    /\ call.num = -3 /\ call.den = 4
    /\ ret = [num |-> -3, den |-> 4]

(***************************************************************************)
(* Properties of parseFraction (SpecParse).                                 *)
(***************************************************************************)
\* an optionally signed run of at least one digit, white space around allowed
IsIntegerText(txt) ==
    LET t    == trim(txt)
        body == IF Len(t) > 0 /\ Head(t) = "-" THEN Tail(t) ELSE t
    IN  Len(body) > 0 /\ \A i \in 1..Len(body) : body[i] \in Digits

\* an optionally signed decimal number, white space around allowed
IsDecimalText(txt) ==
    LET t    == trim(txt)
        body == IF Len(t) > 0 /\ Head(t) = "-" THEN Tail(t) ELSE t
    IN  /\ \A i \in 1..Len(body) : body[i] \in Digits \cup {"."}
        /\ Cardinality({i \in 1..Len(body) : body[i] = "."}) <= 1
        /\ \E i \in 1..Len(body) : body[i] \in Digits

\* a bare decimal number, or "p/q" with integer p and non-zero integer q
IsAnswerText(txt) ==
    \/ IsDecimalText(txt)
    \/ /\ Len(split(trim(txt))) = 2
       /\ IsIntegerText(split(trim(txt))[1])
       /\ IsIntegerText(split(trim(txt))[2])
       /\ DigitsVal(SelectSeq(split(trim(txt))[2], LAMBDA c : c \in Digits)) # 0

\* C14: parseFraction turns a text into a number only if the text is a bare
\* decimal number or "p/q" with integer p and non-zero integer q; every other
\* text is a parse failure (the claim as stated; both versions read "/2" as 0).
C14_ParseFractionStrict ==
    (pc = "returned" /\ call.fn = "parseFraction") =>
        (isFinite(ret) => IsAnswerText(call.txt))

(***************************************************************************)
(* Properties of the elimination planner (SpecPlan).                        *)
(***************************************************************************)
\* the least common multiple of two positive integers
Lcm(m, n) ==
    CHOOSE k \in 1..(m * n) :
        /\ k % m = 0 /\ k % n = 0
        /\ \A j \in 1..(k - 1) : ~(j % m = 0 /\ j % n = 0)

\* both coefficients are non-zero, so the variable can be eliminated
Eligible(c1, c2) == c1 # 0 /\ c2 # 0

\* C19: the planner eliminates x exactly when lcmX <= lcmY, an lcm counting as
\* infinite when either coefficient is 0: a variable with a zero coefficient is
\* never chosen while the other is eligible, and a tie eliminates x.
C19_PlannerChoice ==
    (pc = "planned") =>
        LET e1 == p.eqs[1]
            e2 == p.eqs[2]
            eX == Eligible(e1.a, e2.a)
            eY == Eligible(e1.b, e2.b)
        IN  /\ (ret.plan.eliminate = "x") <=>
                  \/ ~eY
                  \/ eX /\ Lcm(Abs(e1.a), Abs(e2.a)) <= Lcm(Abs(e1.b), Abs(e2.b))
            /\ ret.plan.eliminate \in {"x", "y"}
            /\ (eY /\ ~eX) => ret.plan.eliminate = "y"
            /\ (eX /\ ~eY) => ret.plan.eliminate = "x"

\* C19 witness: x has a zero coefficient, y is eligible and y was chosen
C19_Witness ==
    /\ pc = "planned"
    /\ p.eqs[1].a = 0 /\ Eligible(p.eqs[1].b, p.eqs[2].b)
    /\ ret.plan.eliminate = "y"

\* the coefficient of the eliminated variable in equation i
ChosenCoef(i) == IF ret.plan.eliminate = "x" THEN p.eqs[i].a ELSE p.eqs[i].b

\* C20: for a generated two-unknown problem k1 and k2 are positive integers
\* that make the chosen variable's coefficients equal in magnitude, and the
\* named operation gives a combined equation without the chosen variable.
C20_PlannerCancels ==
    (pc = "planned" /\ rand # Unset) =>
        LET w  == ret.plan
            c1 == ChosenCoef(1)
            c2 == ChosenCoef(2)
        IN  /\ IsNum(w.k1) /\ w.k1.d = 1 /\ w.k1.n > 0
            /\ IsNum(w.k2) /\ w.k2.d = 1 /\ w.k2.n > 0
            /\ Abs(c1 * w.k1.n) = Abs(c2 * w.k2.n)
            /\ (w.op \in {"-", "subtract"}) => (c1 * w.k1.n - c2 * w.k2.n = 0)
            /\ (w.op \in {"+", "add"}) => (c1 * w.k1.n + c2 * w.k2.n = 0)
            /\ w.op \in {"-", "subtract", "+", "add"}
            /\ (w.op \in {"-", "subtract"}) <=> (Sign(c1) = Sign(c2))
            /\ (app = "sessions") =>
                  LET s1 == IF w.eliminate = "x" THEN w.E1.a ELSE w.E1.b
                      s2 == IF w.eliminate = "x" THEN w.E2.a ELSE w.E2.b
                  IN  JsSub(s1, IF w.op = "-" THEN s2 ELSE JsNeg(s2)) = NumOf(0)

\* C20 witness: a generated problem for which y is eliminated by adding
C20_Witness ==
    /\ pc = "planned" /\ rand # Unset /\ app = "sessions"
    /\ ret.plan.eliminate = "y"
    /\ ret.plan.op = "+"
    /\ ret.plan.k1.n > 1

(***************************************************************************)
(* Submitting answers.                                                      *)
(***************************************************************************)
\* the value submit reads from the field of variable v
FieldValue(v) == parseFraction(getAnswer(ui.answer, v))

\* |a - b| <= 1/ApproxInv for two finite values, by cross-multiplication
WithinTolerance(a, b) ==
    /\ IsNum(a) /\ IsNum(b)
    /\ ApproxInv * Abs(a.n * b.d - b.n * a.d) <= a.d * b.d

\* C15: in App.tsx an evaluated submission is marked correct, in the status and
\* in the recorded attempt, exactly when the value of every variable of the
\* problem is within 1e-6 of the solver's value; in particular it is marked
\* correct when every field holds the exact fraction of the solution.
C15_CorrectIffWithinTolerance ==
    (app = "sessions" /\ pc = "evaluated") =>
        LET vars_   == {p.variables[i] : i \in 1..Len(p.variables)}
            allNear == \A v \in vars_ : WithinTolerance(FieldValue(v), solved[v])
        IN  /\ (ui.status = "correct") <=> allNear
            /\ ui.status \in {"correct", "wrong"}
            /\ ui.sessionAttempts[Len(ui.sessionAttempts)].correct = allNear
            /\ (\A v \in vars_ : getAnswer(ui.answer, v) = ExactText(solved[v]))
                   => ui.status = "correct"

\* the learner typed 9/4 and -5/6, the exact solution, and was marked correct
C15_Witness ==
    /\ app = "sessions"
    /\ pc = "evaluated"
    /\ p.mode = "2x2"
    /\ getAnswer(ui.answer, "x") = <<"9", "/", "4">>
    /\ getAnswer(ui.answer, "y") = <<"-", "5", "/", "6">>
    /\ ui.status = "correct"

\* every field of the problem holds a text that parses to a finite value
AllFieldsValid ==
    \A i \in 1..Len(p.variables) : isFinite(FieldValue(p.variables[i]))

\* C16: in App.tsx a submit whose fields are all valid, on a problem the solver
\* finds no solution for, gives the regenerate result: status wrong with the
\* singular-system message, no worked steps (none in the memo, none shown), no
\* attempt recorded, session and lifetime statistics and the tries on the
\* problem unchanged, and the component keeps rendering.
C16_SingularRegenerate ==
    [][(submit /\ AllFieldsValid /\ solvedMemo(p) = null) =>
         /\ ui'.status = "wrong"
         /\ ui'.explain = [reasons |-> <<"Singular system - generate a new one.">>,
                           steps |-> <<>>, correctText |-> <<>>]
         /\ ui'.workedSteps = <<>>
         /\ ui'.sessionAttempts = ui.sessionAttempts
         /\ ui'.lifetime = ui.lifetime
         /\ ui'.attemptsOnThis = ui.attemptsOnThis
         /\ ui'.timeouts = ui.timeouts
         /\ ~ui'.fault
         /\ p' = p]_vars

\* valid answers were submitted to a three-unknown problem with equal rows
C16_Witness ==
    /\ app = "sessions"
    /\ pc = "singular"
    /\ AllFieldsValid
    /\ solvedMemo(p) = null
    /\ p.eqs[1] = p.eqs[2]
    /\ ui.status = "wrong"
    /\ ui.explain.reasons = <<"Singular system - generate a new one.">>

\* the field-level message validateField of App.tsx leaves for a text
\* (<<>> for none)
FieldMessage(txt) ==
    IF Len(trim(txt)) = 0 THEN <<"Required">>
    ELSE IF ~isFinite(parseFraction(txt)) THEN <<"Enter number or a/b">>
    ELSE <<>>

\* inputErr holds exactly the field-level message of every field of the problem
EveryFieldValidated(u) ==
    \A i \in 1..Len(p.variables) :
       LET v == p.variables[i]
       IN  IF FieldMessage(getAnswer(u.answer, v)) = <<>>
           THEN v \notin DOMAIN u.inputErr
           ELSE /\ v \in DOMAIN u.inputErr
                /\ <<u.inputErr[v]>> = FieldMessage(getAnswer(u.answer, v))

\* C17: in App.tsx, whatever was edited before, a submit with at least one
\* field of the problem empty or unparsable is blocked: every field is
\* validated and has its own field-level message, status is wrong with the
\* fix-input message, and no attempt is recorded (sessionAttempts, lifetime
\* and attemptsOnThis are unchanged).
C17_InvalidSubmitBlocked ==
    [][(submit /\ ~AllFieldsValid) =>
         /\ pc' = "blocked"
         /\ ui'.answer = ui.answer
         /\ EveryFieldValidated(ui')
         /\ ui'.status = "wrong"
         /\ ui'.explain = [reasons |-> <<"Please fix input errors.">>,
                           steps |-> <<>>, correctText |-> <<>>]
         /\ ui'.sessionAttempts = ui.sessionAttempts
         /\ ui'.lifetime = ui.lifetime
         /\ ui'.attemptsOnThis = ui.attemptsOnThis
         /\ ui'.timeouts = ui.timeouts]_vars

\* a submit was blocked with one field valid, one unparsable
C17_Witness ==
    /\ app = "sessions"
    /\ pc = "blocked"
    /\ p.mode = "2x2"
    /\ isFinite(FieldValue("x"))
    /\ getAnswer(ui.answer, "y") = <<"a">>
    /\ "x" \notin DOMAIN ui.inputErr
    /\ "y" \in DOMAIN ui.inputErr
    /\ ui.inputErr["y"] = "Enter number or a/b"
    /\ ui.status = "wrong"

\* a submit was blocked on a problem none of whose fields was ever edited
C17_WitnessFresh ==
    /\ app = "sessions"
    /\ pc = "blocked"
    /\ ui.answer = NoFields
    /\ \A i \in 1..Len(p.variables) :
          /\ p.variables[i] \in DOMAIN ui.inputErr
          /\ ui.inputErr[p.variables[i]] = "Required"

\* some field of the problem holds no input
SomeFieldMissing ==
    \E i \in 1..Len(p.variables) : Len(getAnswer(ui.answer, p.variables[i])) = 0

\* C18: in part_000 a submit made while a field of the problem has no input is
\* blocked, the first submit on a never-edited problem included: nothing is
\* added to the session, lifetime or history statistics and attemptsOnThis is
\* unchanged.
C18_MissingSubmitBlocked ==
    [][(submit_v5 /\ SomeFieldMissing) =>
         /\ pc' = "blocked"
         /\ ui'.session = ui.session
         /\ ui'.lifetime = ui.lifetime
         /\ ui'.history = ui.history
         /\ ui'.attemptsOnThis = ui.attemptsOnThis]_vars

\* the first submit on a never-edited problem was evaluated and recorded
C18_FreshSubmitRecorded ==
    /\ app = "minimal"
    /\ pc = "evaluated"
    /\ ui.answer = NoFields
    /\ ui.attemptsOnThis = 1
    /\ ui.session.attempts = 1
    /\ ui.lifetime.totalAttempts = 1
    /\ Len(ui.history) = 1
    /\ ui.status = "wrong"

(***************************************************************************)
(* The narration of worked2x2 against the solver (SpecPlan).                *)
(***************************************************************************)
\* the solver's exact fraction for the variable worked2x2 keeps
KeptFraction(w, sol) ==
    IF w.eliminate = "x" THEN [num |-> NumOf(sol.yNum), den |-> NumOf(sol.yDen)]
                         ELSE [num |-> NumOf(sol.xNum), den |-> NumOf(sol.xDen)]

\* C21: for every non-singular generated two-unknown problem the
\* single-variable equation worked2x2 narrates has a non-zero coefficient, and
\* the fraction it states for the remaining variable is the solver's exact
\* fraction for that variable (yNum/yDen when x is eliminated, xNum/xDen when y
\* is), so the narration agrees with its final Exact line.
C21_NarrationMatchesSolver ==
    (pc = "planned" /\ app = "sessions" /\ rand # Unset
        /\ solve2(p.eqs[1], p.eqs[2]) # null) =>
        LET w    == ret.plan
            sol  == solve2(p.eqs[1], p.eqs[2])
            kept == IF w.eliminate = "x" THEN "y" ELSE "x"
            f    == KeptFraction(w, sol)
        IN  /\ IsNum(w.B) /\ w.B.n # 0
            /\ IsNum(w.Bd)
            /\ simplifyFractionX(w.Bd, w.B) = f
            /\ ret.steps # RangeError
            /\ Len(ret.steps) = 7
            /\ ret.steps[5] = kept \o " = " \o fracToTextX(f.num, f.den)
            /\ ret.steps[7] = "Exact: x = " \o fracToText(sol.xNum, sol.xDen)
                              \o ", y = " \o fracToText(sol.yNum, sol.yDen)

\* C21 witness: y was eliminated, the combined equation has a negative
\* coefficient other than -1 and the stated fraction is not an integer
C21_Witness ==
    /\ pc = "planned" /\ app = "sessions" /\ rand # Unset
    /\ solve2(p.eqs[1], p.eqs[2]) # null
    /\ ret.plan.eliminate = "y"
    /\ IsNum(ret.plan.B) /\ ret.plan.B.n < -1
    /\ solve2(p.eqs[1], p.eqs[2]).xDen > 1

\* the larger of the two multipliers that equalize the coefficients c1 and c2
MaxMultiplier(c1, c2) ==
    LET l  == Lcm(Abs(c1), Abs(c2))
        m1 == l \div Abs(c1)
        m2 == l \div Abs(c2)
    IN  IF m1 >= m2 THEN m1 ELSE m2

\* C22: for every generated two-unknown problem the largest multiplier used
\* for the variable the planner eliminates, max(k1, k2), is no greater than the
\* largest multiplier that eliminating the other variable would need.
C22_MultipliersMinimal ==
    (pc = "planned" /\ app = "sessions" /\ rand # Unset) =>
        LET w  == ret.plan
            o1 == IF w.eliminate = "x" THEN p.eqs[1].b ELSE p.eqs[1].a
            o2 == IF w.eliminate = "x" THEN p.eqs[2].b ELSE p.eqs[2].a
        IN  Eligible(o1, o2) =>
               /\ IsNum(w.k1) /\ IsNum(w.k2)
               /\ JsLe(w.k1, NumOf(MaxMultiplier(o1, o2)))
               /\ JsLe(w.k2, NumOf(MaxMultiplier(o1, o2)))

SideTerms(c) ==
    SelectSeq(<<[coef |-> c.k, name |-> ""], [coef |-> c.ax, name |-> "x"],
                [coef |-> c.by, name |-> "y"]>>
              \o (IF c.includeZ THEN <<[coef |-> c.cz, name |-> "z"]>> ELSE <<>>),
              LAMBDA t : t.coef # 0)

\* a term without its sign: the numeral is dropped before a variable when it is 1
Magnitude(t) ==
    IF t.name # "" /\ Abs(t.coef) = 1 THEN t.name ELSE ToString(Abs(t.coef)) \o t.name

\* terms i .. Len(ts), each joined by its explicit sign
RECURSIVE Joined(_, _)
Joined(ts, i) ==
    IF i > Len(ts) THEN ""
    ELSE (IF ts[i].coef < 0 THEN " - " ELSE " + ") \o Magnitude(ts[i]) \o Joined(ts, i + 1)

\* C24: formatSide renders exactly the non-zero terms in the order constant,
\* x, y, z (z only when includeZ): the first term has a leading minus only when
\* it is negative, every later term is joined by an explicit + or - and its
\* magnitude, a variable of coefficient 1 or -1 has no numeral while a constant
\* 1 keeps it, and a side without terms is "0".
C24_FormatSide ==
    (pc = "returned" /\ call.fn = "formatSide") =>
        LET ts == SideTerms(call)
        IN  ret = IF Len(ts) = 0 THEN "0"
                  ELSE (IF ts[1].coef < 0 THEN "- " ELSE "") \o Magnitude(ts[1])
                       \o Joined(ts, 2)

\* C24 witness: a negative constant 1 leads, x has coefficient -1, y is absent
\* and z is shown
C24_Witness ==
    /\ pc = "returned" /\ call.fn = "formatSide"
    /\ call = [fn |-> "formatSide", ax |-> -1, by |-> 0, cz |-> 2, k |-> -1,
               includeZ |-> TRUE]
    /\ ret = "- 1 - x + 2z"

\* a side whose terms are all zero was rendered
C24_WitnessZero ==
    /\ pc = "returned" /\ call.fn = "formatSide"
    /\ call.ax = 0 /\ call.by = 0 /\ call.k = 0 /\ call.cz # 0 /\ ~call.includeZ
    /\ ret = "0"

(***************************************************************************)
(* Feedback and statistics of a submission (SpecUI).                        *)
(***************************************************************************)
\* C25: in part_000 the correct answer is revealed only after two wrong tries
\* on the current problem: the feedback of the first wrong evaluated submission
\* carries no correct-answer text, and the text is there only once
\* attemptsOnThis has reached 2.
C25_RevealAfterTwoTries_v5 ==
    (app = "minimal") =>
        /\ (pc = "evaluated" /\ ui.status = "wrong" /\ ui.attemptsOnThis = 1) =>
              ui.explain.correctText = <<>>
        /\ (ui.explain.correctText # <<>>) => ui.attemptsOnThis >= 2

\* the number of correct attempts among the records
CorrectAmong(records) == Len(SelectSeq(records, LAMBDA a : a.correct))

\* C26: statistics change exactly once per evaluated submit: a submission that
\* reaches the correctness check adds exactly one attempt record to the
\* session, adds 1 to lifetime.totalAttempts and adds 1 to lifetime.totalCorrect
\* exactly when it was correct, and no other step of the session changes them;
\* hence always totalCorrect <= totalAttempts, and the session holds as many
\* attempts as submissions were evaluated.
C26_StatsOncePerSubmit ==
    /\ [][(app = "sessions") =>
            IF pc' = "evaluated"
            THEN /\ Len(ui'.sessionAttempts) = Len(ui.sessionAttempts) + 1
                 /\ SubSeq(ui'.sessionAttempts, 1, Len(ui.sessionAttempts)) = ui.sessionAttempts
                 /\ ui'.sessionAttempts[Len(ui'.sessionAttempts)].correct
                       = (ui'.status = "correct")
                 /\ ui'.lifetime.totalAttempts = ui.lifetime.totalAttempts + 1
                 /\ ui'.lifetime.totalCorrect = ui.lifetime.totalCorrect
                       + (IF ui'.status = "correct" THEN 1 ELSE 0)
            ELSE /\ ui'.sessionAttempts = ui.sessionAttempts
                 /\ ui'.lifetime = ui.lifetime]_vars
    /\ [][(app = "minimal") =>
            IF pc' = "evaluated"
            THEN /\ ui'.session.attempts = ui.session.attempts + 1
                 /\ ui'.session.correct = ui.session.correct
                       + (IF ui'.status = "correct" THEN 1 ELSE 0)
                 /\ ui'.lifetime.totalAttempts = ui.lifetime.totalAttempts + 1
                 /\ ui'.lifetime.totalCorrect = ui.lifetime.totalCorrect
                       + (IF ui'.status = "correct" THEN 1 ELSE 0)
                 /\ Len(ui'.history) = Len(ui.history) + 1
            ELSE /\ ui'.session = ui.session
                 /\ ui'.lifetime = ui.lifetime
                 /\ ui'.history = ui.history]_vars
    /\ []((app = "sessions") =>
            /\ ui.lifetime.totalCorrect <= ui.lifetime.totalAttempts
            /\ Len(ui.sessionAttempts) = ui.lifetime.totalAttempts
            /\ CorrectAmong(ui.sessionAttempts) = ui.lifetime.totalCorrect)
    /\ []((app = "minimal") =>
            /\ ui.lifetime.totalCorrect <= ui.lifetime.totalAttempts
            /\ ui.session.correct <= ui.session.attempts
            /\ ui.session.attempts = ui.lifetime.totalAttempts
            /\ Len(ui.history) = ui.lifetime.totalAttempts
            /\ CorrectAmong(ui.history) = ui.lifetime.totalCorrect)

\* C26 witness: a wrong and then a correct submission were evaluated in App.tsx
C26_Witness ==
    /\ app = "sessions"
    /\ pc = "evaluated"
    /\ Len(ui.sessionAttempts) = 2
    /\ ~ui.sessionAttempts[1].correct
    /\ ui.sessionAttempts[2].correct
    /\ ui.lifetime.totalAttempts = 2
    /\ ui.lifetime.totalCorrect = 1

(***************************************************************************)
(* Timers and phases of a session (SpecSession).                            *)
(***************************************************************************)
\* C27: in App.tsx the per-problem timer is stopped after a correct
\* submission: from that submission until the next problem is loaded (while
\* status is correct) runningProblem is false and elapsedProblem does not
\* advance.
C27_TimerStoppedAfterCorrect ==
    [][(ui'.status = "correct") =>
          /\ ~ui'.runningProblem
          /\ (ui.status = "correct") => ui'.elapsedProblem = ui.elapsedProblem]_vars

\* the problem timer has advanced after the problem was answered correctly
C27_TimerAdvancedAfterCorrect ==
    /\ pc = "ticked"
    /\ ui.phase = "active"
    /\ ui.status = "correct"
    /\ ui.runningProblem
    /\ ui.elapsedProblem > ui.sessionAttempts[Len(ui.sessionAttempts)].seconds

\* C28: in App.tsx an active session always ends when its time is up: while
\* the session timer keeps ticking, an active phase is eventually followed by
\* summary; the phase is no longer active once sessionElapsed has reached
\* minutes * 60; and the phase becomes active only by startSession.
C28_SessionEnds ==
    /\ (ui.phase = "active") ~> (ui.phase = "summary")
    /\ [][/\ (ui'.phase = "active") => ui'.sessionElapsed < sessionTotal
          /\ (ui.phase = "active" /\ ui'.sessionElapsed >= sessionTotal) =>
                ui'.phase = "summary"
          /\ (ui'.phase = "active" /\ ui.phase # "active") => pc' = "started"]_vars

\* C28 witness: the session was ended by the time-up effect, not by the button
C28_Witness ==
    /\ pc = "ticked"
    /\ ui.phase = "summary"
    /\ ui.sessionElapsed >= sessionTotal
    /\ ~ui.runningProblem
    /\ Len(ui.pastSessions) = 1

\* C29: in App.tsx, in every reachable state the per-problem timer flag is set
\* only during an active session: runningProblem implies phase = active,
\* however submit, the delayed newProblem callback, the timer ticks, End
\* session and the time-up effect interleave.
C29_RunningOnlyWhenActive ==
    (app = "sessions" /\ ui.runningProblem) => ui.phase = "active"

\* the delayed newProblem callback has run after the session had ended
C29_RunningInSummary ==
    /\ pc = "new"
    /\ ui.phase = "summary"
    /\ ui.runningProblem
    /\ ui.status = "idle"

(***************************************************************************)
(* The delayed newProblem callback (SpecUI).                                *)
(***************************************************************************)
\* C30: in App.tsx each problem contributes at most one correct attempt record
\* and is replaced exactly once after being answered correctly: no further
\* submit records a second correct attempt for a problem already answered
\* correctly, at most one newProblem callback is pending, and the callback
\* replaces only the problem whose correct answer scheduled it, never a
\* problem put up since.
C30_OneCorrectPerProblem ==
    [][(app = "sessions") =>
          /\ ~(ui.status = "correct" /\ pc' = "evaluated" /\ ui'.status = "correct"
               /\ p'.id = p.id)
          /\ ui'.timeouts <= 1
          /\ (pc' = "new" /\ ui'.timeouts < ui.timeouts) => ui.status = "correct"]_vars

\* two correct attempts were recorded for one problem
C30_TwoCorrectRecords ==
    /\ app = "sessions"
    /\ pc = "evaluated"
    /\ ui.status = "correct"
    /\ ui.timeouts = 2
    /\ Len(ui.sessionAttempts) = 2
    /\ ui.sessionAttempts[1].correct /\ ui.sessionAttempts[2].correct

\* the callback replaced a problem that had just been put up and not answered
C30_FreshProblemDiscarded ==
    /\ app = "sessions"
    /\ pc = "new"
    /\ ui.timeouts = 0
    /\ Len(ui.sessionAttempts) = 1
    /\ rand.id = 1

====
